---- MODULE Spec2Model ----
(***************************************************************************)
(* Model of the wip_backend contract-management service:                   *)
(*   - ComprehensiveClaudeAnalyzer._ask_claude, the retry loop around the  *)
(*     vendor call (specification SpecAsk);                                *)
(*   - the REST handlers of app/api/contracts.py and app/api/wip_entry.py  *)
(*     over the relational tables, run by concurrent workers               *)
(*     (specification Spec);                                               *)
(*   - upload_wip_csv of app/api/wip.py (specification SpecCsv).           *)
(***************************************************************************)
EXTENDS Integers, Sequences, FiniteSets, TLC

VARIABLES
    \* ---- ComprehensiveClaudeAnalyzer._ask_claude
    ask_pc,        \* "request" | "returned" | "raised" | "unexpected"
    attempt,       \* the loop variable of `for attempt in range(max_retries + 1)`
    max_retries,   \* the max_retries argument
    outcomes,      \* what the vendor answered to each requests.post, in order
    sleeps,        \* the argument of each time.sleep, in order
    returned,      \* index in outcomes of the response whose text was returned, 0 if none
    raised,        \* which raise statement ended the call, "" if none
    \* ---- the relational tables and the request handlers working on them
    contracts,     \* table contracts: sequence of rows, row i has id i
    analyses,      \* table contract_analysis: sequence of rows, row i has id i
    wip_entries,   \* table wip_entries: sequence of rows, row i has id i
    api_key,       \* settings.anthropic_api_key is set
    reqs,          \* per worker: the request in flight and its local variables
    last,          \* the response most recently sent, with what its handler did
    served,        \* requests accepted so far (counted in SpecWip only)
    \* ---- upload_wip_csv
    wip_items,     \* table wip
    csv_last,      \* the response of the most recent CSV upload
    \* ---- ContractIntelligenceService and the directory endpoints
    classification, \* the classification handed to score_document_importance
    score,         \* what score_document_importance returned, 0 before the call
    directory,     \* the PDF files of the directory, in the order glob yields them
    dir_resp,      \* the response of POST /directories/analyze-directory
    ident_resp,    \* the response of POST /directories/identify-main-contract-directory
    scan_report,   \* the report of single_job_scanner.py for the directory
    \* ---- create_first_user
    users,         \* table users: sequence of rows, row i has id i
    user_reqs,     \* per worker: the create-first-user request in flight
    user_last,     \* the response most recently sent by create_first_user
    \* ---- ComprehensiveClaudeAnalyzer._parse_comprehensive_response
    response,      \* the lines of the vendor's answer
    parsed_data    \* the dict the parser returned, NoData before the call

ask_vars == <<ask_pc, attempt, max_retries, outcomes, sleeps, returned, raised>>

api_vars == <<contracts, analyses, wip_entries, api_key, reqs, last, served>>

csv_vars == <<wip_items, csv_last>>

doc_vars == <<classification, score, directory, dir_resp, ident_resp, scan_report>>

user_vars == <<users, user_reqs, user_last>>

parse_vars == <<response, parsed_data>>

vars == <<ask_pc, attempt, max_retries, outcomes, sleeps, returned, raised,
          contracts, analyses, wip_entries, api_key, reqs, last, served,
          wip_items, csv_last,
          classification, score, directory, dir_resp, ident_resp, scan_report,
          users, user_reqs, user_last,
          response, parsed_data>>

(***************************************************************************)
(* The vendor's possible answers to one requests.post.                     *)
(***************************************************************************)
\* largest max_retries argument explored
MaxRetriesArg == 3

\* HTTP status codes the vendor answers with; 500 stands for "any other status"
VendorStatuses == {200, 429, 529, 500}

\* parses: whether response.json() can decode the body (only read on a 200)
VendorOutcomes ==
    {[kind |-> "response", status |-> s, parses |-> TRUE] : s \in VendorStatuses}
    \cup {[kind |-> "response", status |-> 200, parses |-> FALSE]}
    \cup {[kind |-> "timeout", status |-> 0, parses |-> FALSE],
          [kind |-> "request_error", status |-> 0, parses |-> FALSE]}

(***************************************************************************)
(* ComprehensiveClaudeAnalyzer._ask_claude                                 *)
(***************************************************************************)
\* `if attempt < max_retries` (the guard of every retry branch)
ShouldRetryOffByOne(a, m) == a <= m

ShouldRetry(a, m) == a < m

\* wait_time of the 529 branch: (2**attempt) * 5
OverloadWaitLinear(a) == (a + 1) * 5

OverloadWait(a) == (2 ^ a) * 5

\* wait_time of the 429 branch: 30 + (attempt * 10)
RateLimitWait(a) == 30 + (a * 10)

\* time.sleep(5) of the Timeout and RequestException handlers
ErrorWait == 5

\* the branch of the loop body an answer takes.  response.json() runs inside
\* the try block: a body that does not decode raises JSONDecodeError, which
\* is a RequestException in requests >= 2.27 (handled by the last except
\* clause) and a plain ValueError before (it leaves the function).
Branches(o) ==
    IF o.kind = "timeout" THEN {"timeout"}
    ELSE IF o.kind = "request_error" THEN {"request_error"}
    ELSE IF o.status = 200 THEN (IF o.parses THEN {"ok"} ELSE {"request_error", "json_error"})
    ELSE IF o.status = 529 THEN {"overloaded"}
    ELSE IF o.status = 429 THEN {"rate_limited"}
    ELSE {"api_error"}

\* the sleep a retrying branch takes before `continue`
WaitTime(branch, a) ==
    CASE branch = "overloaded" -> OverloadWait(a)
      [] branch = "rate_limited" -> RateLimitWait(a)
      [] OTHER -> ErrorWait

RetryableAnyStatus == {"overloaded", "rate_limited", "timeout", "request_error", "api_error"}

Retryable == {"overloaded", "rate_limited", "timeout", "request_error"}

\* one iteration of the for loop: the request, the branch on its answer, and
\* either return, raise, or sleep and continue; when `continue` exhausts
\* range(max_retries + 1) control falls to the raise after the loop.
AskAttempt(o, branch) ==
    /\ ask_pc = "request"
    /\ branch \in Branches(o)
    /\ outcomes' = Append(outcomes, o)
    /\ UNCHANGED max_retries
    /\ IF branch = "ok"
       THEN /\ ask_pc' = "returned"
            /\ returned' = Len(outcomes) + 1
            /\ UNCHANGED <<attempt, sleeps, raised>>
       ELSE IF branch \in Retryable /\ ShouldRetry(attempt, max_retries)
       THEN /\ sleeps' = Append(sleeps, WaitTime(branch, attempt))
            /\ attempt' = attempt + 1
            /\ IF attempt + 1 < max_retries + 1
               THEN /\ ask_pc' = "request"
                    /\ UNCHANGED raised
               ELSE /\ ask_pc' = "unexpected"
                    /\ raised' = "Unexpected error in retry loop"
            /\ UNCHANGED returned
       ELSE /\ ask_pc' = "raised"
            /\ raised' = branch
            /\ UNCHANGED <<attempt, sleeps, returned>>

(***************************************************************************)
(* Strings are sequences of one-character strings, so that lower(),        *)
(* endswith(), `in` and replace() are computed as Python computes them.    *)
(***************************************************************************)
UpperCase == <<"A", "B", "C", "D", "E", "F", "G", "H", "I", "J", "K", "L", "M",
               "N", "O", "P", "Q", "R", "S", "T", "U", "V", "W", "X", "Y", "Z">>

LowerCase == <<"a", "b", "c", "d", "e", "f", "g", "h", "i", "j", "k", "l", "m",
               "n", "o", "p", "q", "r", "s", "t", "u", "v", "w", "x", "y", "z">>

DigitChars == <<"0", "1", "2", "3", "4", "5", "6", "7", "8", "9">>

\* str.lower()
LowerChar(c) ==
    IF \E i \in 1..Len(UpperCase) : UpperCase[i] = c
    THEN LowerCase[CHOOSE i \in 1..Len(UpperCase) : UpperCase[i] = c]
    ELSE c

Lower(s) == [i \in 1..Len(s) |-> LowerChar(s[i])]

\* str.endswith(suffix)
EndsWith(s, suffix) ==
    /\ Len(s) >= Len(suffix)
    /\ SubSeq(s, Len(s) - Len(suffix) + 1, Len(s)) = suffix

\* `sub in s`
Contains(s, sub) ==
    \E i \in 1..(Len(s) - Len(sub) + 1) : SubSeq(s, i, i + Len(sub) - 1) = sub

\* s.replace(sub, "")
RECURSIVE RemoveAll(_, _)
RemoveAll(s, sub) ==
    IF Len(s) < Len(sub) THEN s
    ELSE IF SubSeq(s, 1, Len(sub)) = sub
    THEN RemoveAll(SubSeq(s, Len(sub) + 1, Len(s)), sub)
    ELSE <<s[1]>> \o RemoveAll(Tail(s), sub)

\* str(n) of a natural number
RECURSIVE Digits(_)
Digits(n) ==
    IF n < 10 THEN <<DigitChars[n + 1]>>
    ELSE Digits(n \div 10) \o <<DigitChars[(n % 10) + 1]>>

DotPdf == <<".", "p", "d", "f">>

(***************************************************************************)
(* Text of a document: `core` characters between `ws` characters of        *)
(* leading and trailing whitespace.                                        *)
(***************************************************************************)
\* str.strip()
Strip(t) == [ws |-> 0, core |-> t.core]

\* len(text)
TextLen(t) == t.ws + t.core

\* `if len(raw_text.strip()) < 100`
MinTextLength == 100

\* what pdfplumber and OCR yield for an uploaded file, before the final
\* strip: every page's text is followed by "\n"
PdfTexts == {[ws |-> 1, core |-> 0],
             [ws |-> 1, core |-> MinTextLength - 1],
             [ws |-> 1, core |-> MinTextLength]}

\* the absent value of an Optional text
NoText == [ws |-> 0, core |-> 0]

\* extract_text_from_uploaded_file: `text.strip() if text.strip() else None`
ExtractedText(t) == IF Strip(t).core > 0 THEN Strip(t) ELSE NoText

\* EncryptionService.encrypt_text / decrypt_text: empty input is passed
\* through, anything else is wrapped and unwrapped by the cipher
NoCipher == [enc |-> FALSE, text |-> NoText]

EncryptText(t) == IF TextLen(t) = 0 THEN NoCipher ELSE [enc |-> TRUE, text |-> t]

DecryptText(c) == IF c.enc THEN c.text ELSE NoText

\* Contract.raw_text getter
RawText(contract) == DecryptText(contract.raw_text_encrypted)

(***************************************************************************)
(* Inputs of the handlers                                                  *)
(***************************************************************************)
\* upload filenames: two PDFs (one with an upper-case suffix), two non-PDFs
Filenames == {<<"a", ".", "p", "d", "f">>,
              <<"B", ".", "P", "D", "F">>,
              <<"n", "o", "t", "e", "s", ".", "t", "x", "t">>,
              <<"s", "c", "a", "n", "p", "d", "f">>}

\* the fields SimplifiedContractAnalyzer._parse_response yields that later
\* handlers read (an empty name and a zero value stand for None)
ExtractedData == {[contract_name |-> <<>>, contract_value |-> 0],
                  [contract_name |-> <<"B", "r", "i", "d", "g", "e">>,
                   contract_value |-> 1500]}

\* response.text of a vendor error
Bodies == {<<"s", "e", "r", "v", "e", "r", " ", "e", "r", "r", "o", "r">>,
           <<"O", "v", "e", "r", "l", "o", "a", "d", "e", "d">>,
           <<"r", "e", "q", "u", "e", "s", "t", " ", "r", "e", "q", "_", "1", "5", "2", "9", "4">>,
           <<"R", "a", "t", "e", " ", "L", "i", "m", "i", "t", "e", "d">>}

\* concurrent server workers, each running one handler at a time
Workers == {"w1", "w2"}

\* most rows the contracts table holds
MaxContracts == 2

Idle == [op |-> "none", pc |-> "idle", cid |-> 0, data |-> <<>>]

\* a response: the handler, the HTTP status, the detail or status text, the
\* id of the row it reports (0 if none), and what the handler did on the way:
\* whether it read the uploaded file, how many requests it sent the vendor
NoResp == [op |-> "none", status |-> 0, detail |-> "", row |-> 0,
           file_read |-> FALSE, vendor_calls |-> 0, listed |-> {}]

\* a contracts row stored with an empty raw_text_encrypted: the row that
\* `if not raw_text` of analyze_contract guards against.  No handler writes
\* one (extract_contract_text refuses empty text), the column only forbids NULL.
TextlessContract ==
    [id |-> 1, filename |-> <<"a", ".", "p", "d", "f">>, raw_text_encrypted |-> NoCipher]

(***************************************************************************)
(* POST /contracts/extract-text                                            *)
(***************************************************************************)
\* `file.filename.lower().endswith(".pdf")`
IsPdfNoDot(f) == EndsWith(Lower(f), <<"p", "d", "f">>)

IsPdf(f) == EndsWith(Lower(f), DotPdf)

\* IsPdf over the filenames explored, computed once
PdfFilenames == {p[1] : p \in {q \in {<<f, IsPdf(f)>> : f \in Filenames} : q[2]}}

ExtractContractText(w, f, t) ==
    /\ reqs[w].pc = "idle"
    /\ UNCHANGED <<analyses, wip_entries, api_key, reqs>>
    /\ IF f \notin PdfFilenames
       THEN /\ last' = [NoResp EXCEPT !.op = "upload", !.status = 400,
                            !.detail = "Only PDF files are allowed"]
            /\ UNCHANGED contracts
       ELSE IF TextLen(ExtractedText(t)) = 0
       THEN /\ last' = [NoResp EXCEPT !.op = "upload", !.status = 422,
                            !.detail = "Failed to extract text from PDF.",
                            !.file_read = TRUE]
            /\ UNCHANGED contracts
       ELSE /\ Len(contracts) < MaxContracts
            /\ contracts' = Append(contracts,
                   [id |-> Len(contracts) + 1, filename |-> f,
                    raw_text_encrypted |-> EncryptText(ExtractedText(t))])
            /\ last' = [NoResp EXCEPT !.op = "upload", !.status = 200,
                            !.detail = "Text extracted and encrypted successfully",
                            !.file_read = TRUE, !.row = Len(contracts) + 1]

(***************************************************************************)
(* SimplifiedContractAnalyzer                                              *)
(***************************************************************************)
FailedPrefix == <<"F", "a", "i", "l", "e", "d", " ", "t", "o", " ", "a", "n", "a", "l", "y", "z", "e", " ",
                  "c", "o", "n", "t", "r", "a", "c", "t", ":", " ">>

ApiErrorPrefix == <<"C", "l", "a", "u", "d", "e", " ", "A", "P", "I", " ", "e", "r", "r", "o", "r", ":", " ">>

\* str(e) of requests.exceptions.Timeout
TimeoutText == <<"R", "e", "a", "d", " ", "t", "i", "m", "e", "d", " ", "o", "u", "t", ".", " ",
                 "(", "r", "e", "a", "d", " ", "t", "i", "m", "e", "o", "u", "t", "=", "6", "0", ")">>

\* str(e) of another requests.exceptions.RequestException
ConnectionText == <<"C", "o", "n", "n", "e", "c", "t", "i", "o", "n", " ", "a", "b", "o", "r", "t", "e", "d", ".">>

\* str(e) of the JSON decoder's error
JsonText == <<"E", "x", "p", "e", "c", "t", "i", "n", "g", " ", "v", "a", "l", "u", "e", ":", " ",
              "l", "i", "n", "e", " ", "1", " ", "c", "o", "l", "u", "m", "n", " ", "1", " ",
              "(", "c", "h", "a", "r", " ", "0", ")">>

\* SimplifiedContractAnalyzer._ask_claude: one requests.post, no retry, no
\* sleep.  The number of requests it makes for one call:
SimplifiedRequests == 1

\* whether _ask_claude returns (a 200 whose body decodes)
SimplifiedSucceeds(o) == o.kind = "response" /\ o.status = 200 /\ o.parses

\* str(e) of what _ask_claude raises otherwise
SimplifiedError(o, body) ==
    IF o.kind = "timeout" THEN TimeoutText
    ELSE IF o.kind = "request_error" THEN ConnectionText
    ELSE IF o.status = 200 THEN JsonText
    ELSE ApiErrorPrefix \o Digits(o.status) \o <<" ", "-", " ">> \o body

\* extract_key_contract_data: `raise Exception(f"Failed to analyze contract: {str(e)}")`
AnalyzeError(o, body) == FailedPrefix \o SimplifiedError(o, body)

(***************************************************************************)
(* POST /contracts/analyze/{contract_id}                                   *)
(***************************************************************************)
\* rows of contract_analysis with this contract_id
AnalysesOfNone(cid) == {}

AnalysesOf(cid) == {i \in 1..Len(analyses) : analyses[i].contract_id = cid}

\* the except clause of analyze_contract: the status it answers for str(e)
ErrorStatus(msg) ==
    IF \/ Contains(Lower(msg), <<"o", "v", "e", "r", "l", "o", "a", "d", "e", "d">>)
       \/ Contains(msg, <<"5", "2", "9">>)
    THEN 503
    ELSE IF \/ Contains(Lower(msg), <<"r", "a", "t", "e", " ", "l", "i", "m", "i", "t", "e", "d">>)
            \/ Contains(msg, <<"4", "2", "9">>)
    THEN 429
    ELSE 500

\* the vendor answers on which the analyzer raises, each with the
\* response.text that goes into the message
VendorFailures ==
    {<<o, b>> : o \in {x \in VendorOutcomes : x.kind = "response" /\ x.status # 200},
                b \in Bodies}
    \cup {<<o, <<>>>> : o \in {x \in VendorOutcomes :
                                   ~SimplifiedSucceeds(x) /\ ~(x.kind = "response" /\ x.status # 200)}}

\* ErrorStatus of the message of each failure, computed once
FailureStatuses == {<<x, ErrorStatus(AnalyzeError(x[1], x[2]))>> : x \in VendorFailures}

FailureStatus(o, body) == (CHOOSE p \in FailureStatuses : p[1] = <<o, body>>)[2]

\* the checks before the vendor call: the status and detail they end the
\* request with, or status 0 when the handler goes on to the vendor call
TextCheckSkipped(text) == IF TextLen(text) = 0 THEN 422 ELSE 0

TextCheck(text) ==
    IF TextLen(text) = 0 THEN 422
    ELSE IF Strip(text).core < MinTextLength THEN 422
    ELSE 0

\* lines 137-219: look the contract up, return a stored analysis, check the
\* text and the API key.  `existing` is the row .first() returns, 0 if none.
AnalyzeStart(w, cid, existing) ==
    /\ reqs[w].pc = "idle"
    /\ existing \in (IF AnalysesOf(cid) = {} THEN {0} ELSE AnalysesOf(cid))
    /\ UNCHANGED <<contracts, analyses, wip_entries, api_key>>
    /\ LET base == [NoResp EXCEPT !.op = "analyze"] IN
       IF cid \notin 1..Len(contracts)
       THEN /\ last' = [base EXCEPT !.status = 404, !.detail = "Contract not found"]
            /\ UNCHANGED reqs
       ELSE IF existing # 0
       THEN /\ last' = [base EXCEPT !.status = 200, !.detail = "previously_analyzed",
                                    !.row = existing]
            /\ UNCHANGED reqs
       ELSE IF TextCheck(RawText(contracts[cid])) # 0
       THEN /\ last' = [base EXCEPT !.status = TextCheck(RawText(contracts[cid])),
                            !.detail = IF TextLen(RawText(contracts[cid])) = 0
                                       THEN "No text found - extract text first"
                                       ELSE "Contract text too short for analysis"]
            /\ UNCHANGED reqs
       ELSE IF ~api_key
       THEN /\ last' = [base EXCEPT !.status = 500,
                                    !.detail = "Anthropic API key not configured"]
            /\ UNCHANGED reqs
       ELSE /\ reqs' = [reqs EXCEPT ![w] = [op |-> "analyze", pc |-> "vendor",
                                            cid |-> cid, data |-> <<>>]]
            /\ UNCHANGED last

\* lines 221-235 and 310-327: analyzer.analyze_contract(raw_text), and the
\* except clause when it raises
AnalyzeVendorOk(w, data) ==
    /\ reqs[w].pc = "vendor"
    /\ UNCHANGED <<contracts, analyses, wip_entries, api_key, last>>
    /\ reqs' = [reqs EXCEPT ![w].pc = "commit", ![w].data = data]

AnalyzeVendorFails(w, o, body) ==
    /\ reqs[w].pc = "vendor"
    /\ <<o, body>> \in VendorFailures
    /\ UNCHANGED <<contracts, analyses, wip_entries, api_key>>
    /\ reqs' = [reqs EXCEPT ![w] = Idle]
    /\ last' = [NoResp EXCEPT !.op = "analyze",
                    !.status = FailureStatus(o, body),
                    !.detail = "analysis failed",
                    !.vendor_calls = SimplifiedRequests]

\* lines 237-308: db.add(db_analysis); db.commit().  contract_analysis has
\* no constraint on contract_id besides the foreign key.
AnalyzeCommit(w) ==
    /\ reqs[w].pc = "commit"
    /\ reqs[w].op = "analyze"
    /\ UNCHANGED <<contracts, wip_entries, api_key>>
    /\ analyses' = Append(analyses,
           [id |-> Len(analyses) + 1, contract_id |-> reqs[w].cid,
            contract_name |-> reqs[w].data.contract_name,
            contract_value |-> reqs[w].data.contract_value])
    /\ reqs' = [reqs EXCEPT ![w] = Idle]
    /\ last' = [NoResp EXCEPT !.op = "analyze", !.status = 200,
                    !.detail = "newly_analyzed", !.vendor_calls = SimplifiedRequests,
                    !.row = Len(analyses) + 1]

(***************************************************************************)
(* POST /wip/wip-entry and PUT /wip/wip-entry/{wip_id}                     *)
(***************************************************************************)
\* job numbers a client sends
JobNumbers == {"J1"}

\* WIPUpdateRequest: each field is Optional, <<>> is None and <<v>> a value
WipUpdates ==
    {[job_number |-> <<>>, job_name |-> <<>>, contract_amount |-> <<>>],
     [job_number |-> <<"J2">>, job_name |-> <<>>, contract_amount |-> <<>>],
     [job_number |-> <<"J2">>, job_name |-> <<<<"R", "a", "m", "p">>>>,
      contract_amount |-> <<99>>]}

\* rows of contracts with this filename
ContractsNamed(f) == {i \in 1..Len(contracts) : contracts[i].filename = f}

\* `request.filename.replace(".pdf", "")` of the filenames explored, computed once
BaseNames == {<<f, RemoveAll(f, DotPdf)>> : f \in Filenames}

BaseName(f) == (CHOOSE p \in BaseNames : p[1] = f)[2]

\* `db.query(WIPEntry).filter(WIPEntry.contract_id == contract.id).first()`
\* is not None
ExistingEntryUnchecked(rows, cid) == FALSE

ExistingEntry(rows, cid) == \E i \in 1..Len(rows) : rows[i].contract_id = cid

\* the unique constraint of wip_entries.contract_id refuses the INSERT
UniqueDropped(rows, cid) == FALSE

UniqueViolation(rows, cid) == \E i \in 1..Len(rows) : rows[i].contract_id = cid

\* lines 146-186: resolve the filename (c is the row .first() returns, 0 if
\* none), refuse an existing entry or a missing analysis, build the row
\* from the analysis .first() returns (a)
WipCreateStart(w, f, jn, c, a) ==
    /\ reqs[w].pc = "idle"
    /\ c \in (IF ContractsNamed(f) = {} THEN {0} ELSE ContractsNamed(f))
    /\ a \in (IF AnalysesOf(c) = {} THEN {0} ELSE AnalysesOf(c))
    /\ UNCHANGED <<contracts, analyses, wip_entries, api_key>>
    /\ LET base == [NoResp EXCEPT !.op = "wip_create"] IN
       IF c = 0
       THEN /\ last' = [base EXCEPT !.status = 404, !.detail = "not found"]
            /\ UNCHANGED reqs
       ELSE IF ExistingEntry(wip_entries, c)
       THEN /\ last' = [base EXCEPT !.status = 400, !.detail = "WIP entry already exists"]
            /\ UNCHANGED reqs
       ELSE IF a = 0
       THEN /\ last' = [base EXCEPT !.status = 400, !.detail = "must be analyzed first"]
            /\ UNCHANGED reqs
       ELSE /\ reqs' = [reqs EXCEPT ![w] =
                   [op |-> "wip_create", pc |-> "commit", cid |-> c,
                    data |-> [job_number |-> jn,
                              job_name |-> IF analyses[a].contract_name # <<>>
                                           THEN analyses[a].contract_name
                                           ELSE BaseName(f),
                              contract_amount |-> analyses[a].contract_value]]]
            /\ UNCHANGED last

\* lines 188-205: db.add(wip_entry); db.commit().  A refused INSERT raises
\* IntegrityError, which no handler catches: the client gets a 500.
WipCreateCommit(w) ==
    /\ reqs[w].pc = "commit"
    /\ reqs[w].op = "wip_create"
    /\ UNCHANGED <<contracts, analyses, api_key>>
    /\ reqs' = [reqs EXCEPT ![w] = Idle]
    /\ LET base == [NoResp EXCEPT !.op = "wip_create"] IN
       IF UniqueViolation(wip_entries, reqs[w].cid)
       THEN /\ last' = [base EXCEPT !.status = 500, !.detail = "IntegrityError"]
            /\ UNCHANGED wip_entries
       ELSE /\ wip_entries' = Append(wip_entries,
                   [id |-> Len(wip_entries) + 1, contract_id |-> reqs[w].cid,
                    job_number |-> reqs[w].data.job_number,
                    job_name |-> reqs[w].data.job_name,
                    contract_amount |-> reqs[w].data.contract_amount])
            /\ last' = [base EXCEPT !.status = 200, !.detail = "WIP entry created",
                                    !.row = Len(wip_entries) + 1]

\* the query of get_available_contracts: contracts joined with their
\* analyses, kept when no wip_entries row has the contract's id
AvailableContracts ==
    {row \in (1..Len(contracts)) \X (1..Len(analyses)) :
        /\ analyses[row[2]].contract_id = row[1]
        /\ ~\E i \in 1..Len(wip_entries) : wip_entries[i].contract_id = row[1]}

\* GET /wip/available-contracts: the filenames listed
GetAvailableContracts(w) ==
    /\ reqs[w].pc = "idle"
    /\ UNCHANGED <<contracts, analyses, wip_entries, api_key, reqs>>
    /\ last' = [NoResp EXCEPT !.op = "available_contracts", !.status = 200,
                              !.listed = {contracts[row[1]].filename :
                                             row \in AvailableContracts}]

\* update_wip_entry: the fields given are overwritten, contract_id never is
UpdateWipEntry(w, wip_id, u) ==
    /\ reqs[w].pc = "idle"
    /\ UNCHANGED <<contracts, analyses, api_key, reqs>>
    /\ LET base == [NoResp EXCEPT !.op = "wip_update", !.row = wip_id] IN
       IF wip_id \notin 1..Len(wip_entries)
       THEN /\ last' = [base EXCEPT !.status = 404, !.detail = "WIP entry not found"]
            /\ UNCHANGED wip_entries
       ELSE /\ wip_entries' = [wip_entries EXCEPT ![wip_id] =
                   [@ EXCEPT !.job_number = IF u.job_number # <<>>
                                            THEN u.job_number[1] ELSE @,
                             !.job_name = IF u.job_name # <<>>
                                          THEN u.job_name[1] ELSE @,
                             !.contract_amount = IF u.contract_amount # <<>>
                                                 THEN u.contract_amount[1] ELSE @]]
            /\ last' = [base EXCEPT !.status = 200, !.detail = "WIP entry updated"]

(***************************************************************************)
(* POST /wip/upload-csv                                                    *)
(***************************************************************************)
\* `expected_headers = {"job_number", "project_name"}`
ExpectedHeaders == {"job_number", "project_name"}

\* header names a file may carry
HeaderNames == ExpectedHeaders \cup {"notes"}

DotCsv == <<".", "c", "s", "v">>

CsvFilenames == {<<"w", ".", "c", "s", "v">>, <<"w", ".", "C", "S", "V">>,
                 <<"w", ".", "t", "x", "t">>}

\* most data rows of an uploaded file
MaxRows == 2

\* a data row after .strip(): an empty cell, or a value
CsvRows == {[job_number |-> "J1", project_name |-> "P1"],
            [job_number |-> "", project_name |-> "P1"],
            [job_number |-> "J1", project_name |-> ""]}

CsvFiles == UNION {[1..n -> CsvRows] : n \in 0..MaxRows}

\* `file.filename.endswith(".csv")`
IsCsv(f) == EndsWith(f, DotCsv)

\* `expected_headers.issubset(actual_headers)`
HeadersOkAny(actual) == ExpectedHeaders \cap actual # {}

HeadersOk(actual) == ExpectedHeaders \subseteq actual

\* `missing_headers = expected_headers - actual_headers`
MissingHeaders(actual) == ExpectedHeaders \ actual

\* WIPModel(job_number=job_number, project_name=project_name): user_id is
\* left unset (0 stands for NULL)
NewWipItem(row) ==
    [job_number |-> row.job_number, project_name |-> row.project_name, user_id |-> 0]

\* wip.user_id is nullable=False: the INSERT of such a row is refused
NotNullViolation(item) == item.user_id = 0

\* the loop over the rows.  acc: the items added to the session, whether a
\* flush has failed (the session then refuses every query until rollback),
\* created_items and errors.  The query for an existing job number flushes
\* the session first.
RECURSIVE ProcessRows(_, _, _)
ProcessRows(rows, table, acc) ==
    IF rows = <<>> THEN acc
    ELSE LET row == Head(rows)
             flushFails == acc.broken \/ \E it \in acc.pending : NotNullViolation(it)
             step ==
                 IF row.job_number = "" \/ row.project_name = ""
                 THEN [acc EXCEPT !.errors = @ + 1]
                 ELSE IF flushFails
                 THEN [acc EXCEPT !.errors = @ + 1, !.broken = TRUE]
                 ELSE IF \E it \in table : it.job_number = row.job_number
                 THEN [acc EXCEPT !.errors = @ + 1]
                 ELSE [acc EXCEPT !.pending = @ \cup {NewWipItem(row)},
                                  !.created = @ + 1]
         IN ProcessRows(Tail(rows), table, step)

\* the most recent upload: the request and the response to it
NoCsvResp == [file |-> <<>>, decodes |-> FALSE, headers |-> {}, rows |-> <<>>,
              status |-> 0, detail |-> "", missing |-> {}, found |-> {},
              created_count |-> 0, error_count |-> 0]

\* the handler; decodes: contents.decode("utf-8") succeeds
UploadWipCsv(f, decodes, headers, rows) ==
    LET base == [NoCsvResp EXCEPT !.file = f, !.decodes = decodes,
                                  !.headers = headers, !.rows = rows]
        acc == ProcessRows(rows, wip_items,
                           [pending |-> {}, broken |-> FALSE, created |-> 0, errors |-> 0])
    IN
    IF ~IsCsv(f)
    THEN /\ csv_last' = [base EXCEPT !.status = 400, !.detail = "File must be a CSV file"]
         /\ UNCHANGED wip_items
    ELSE IF ~decodes
    THEN /\ csv_last' = [base EXCEPT !.status = 500, !.detail = "Error processing CSV file"]
         /\ UNCHANGED wip_items
    ELSE IF ~HeadersOk(headers)
    THEN /\ csv_last' = [base EXCEPT !.status = 400,
                                     !.detail = "CSV missing required headers",
                                     !.missing = MissingHeaders(headers),
                                     !.found = headers]
         /\ UNCHANGED wip_items
    ELSE IF acc.created = 0
    THEN /\ csv_last' = [base EXCEPT !.status = 200, !.detail = "Successfully processed",
                                     !.error_count = acc.errors]
         /\ UNCHANGED wip_items
    ELSE IF acc.broken \/ \E it \in acc.pending : NotNullViolation(it)
    THEN \* db.commit() raises; `except Exception` rolls back and answers 500
         /\ csv_last' = [base EXCEPT !.status = 500, !.detail = "Error processing CSV file"]
         /\ UNCHANGED wip_items
    ELSE /\ wip_items' = wip_items \cup acc.pending
         /\ csv_last' = [base EXCEPT !.status = 200, !.detail = "Successfully processed",
                                     !.created_count = acc.created,
                                     !.error_count = acc.errors]


(***************************************************************************)
(* ContractIntelligenceService.score_document_importance                   *)
(***************************************************************************)
\* a key the classification dict does not hold
Missing == "(missing)"

\* dict.get(key, default)
Get(v, default) == IF v = Missing THEN default ELSE v

\* `importance_scores.get(..., 40)`
ImportanceScores(v) ==
    CASE v = "CRITICAL" -> 100
      [] v = "HIGH" -> 70
      [] v = "MEDIUM" -> 40
      [] v = "LOW" -> 20
      [] OTHER -> 40

\* `type_scores.get(..., 0)`
TypeScores(v) ==
    CASE v = "PRIMARY_CONTRACT" -> 50
      [] v = "CHANGE_ORDER" -> 30
      [] v = "AMENDMENT" -> 25
      [] v = "INSURANCE_DOCUMENT" -> 15
      [] v = "CORRESPONDENCE" -> 10
      [] OTHER -> 0

\* the if/elif on classification.get("status")
StatusBonus(v) ==
    IF v = "EXECUTED_SIGNED" THEN 30
    ELSE IF v = "DRAFT_UNSIGNED" THEN 10
    ELSE 0

\* `any(word in filename for word in words)`
AnyIn(words, filename) == \E word \in words : Contains(filename, word)

\* the if/elif/elif on r1, r2, r3
VersionBonusCumulative(filename) ==
    (IF AnyIn({<<"r", "1">>, <<"r", "e", "v", "1">>}, filename) THEN 15 ELSE 0)
    + (IF AnyIn({<<"r", "2">>, <<"r", "e", "v", "2">>}, filename) THEN 18 ELSE 0)
    + (IF AnyIn({<<"r", "3">>, <<"r", "e", "v", "3">>}, filename) THEN 22 ELSE 0)

VersionBonus(filename) ==
    IF Contains(filename, <<"r", "1">>) \/ Contains(filename, <<"r", "e", "v", "1">>) THEN 15
    ELSE IF Contains(filename, <<"r", "2">>) \/ Contains(filename, <<"r", "e", "v", "2">>) THEN 18
    ELSE IF Contains(filename, <<"r", "3">>) \/ Contains(filename, <<"r", "e", "v", "3">>) THEN 22
    ELSE 0

\* the if/elif/elif on text_length
LengthBonus(text_length) ==
    IF text_length > 100000 THEN 15
    ELSE IF text_length > 50000 THEN 10
    ELSE IF text_length > 20000 THEN 5
    ELSE 0

\* the function, statement by statement
ScoreDocumentImportance(c) ==
    LET filename == Lower(Get(c.filename, <<>>))
        s1 == ImportanceScores(Get(c.importance, "MEDIUM"))
        s2 == s1 + TypeScores(Get(c.document_type, ""))
        s3 == s2 + StatusBonus(c.status)
        s4 == s3 + (IF AnyIn({<<"e", "x", "e", "c", "u", "t", "e", "d">>, <<"s", "i", "g", "n", "e", "d">>, <<"f", "i", "n", "a", "l">>}, filename)
                    THEN 25 ELSE 0)
        s5 == s4 + (IF Contains(filename, <<"c", "l", "e", "a", "n">>) THEN 20 ELSE 0)
        s6 == s5 + VersionBonus(filename)
        s7 == s6 - (IF AnyIn({<<"m", "a", "r", "k", "u", "p">>, <<"m", "a", "r", "k", " ", "u", "p">>, <<"d", "r", "a", "f", "t">>}, filename)
                    THEN 10 ELSE 0)
    IN s7 + LengthBonus(c.text_length)

\* filenames scored: every indicator word, alone and combined, two in upper case
ScoreFilenames ==
    {<<"a", ".", "p", "d", "f">>, <<"E", "x", "e", "c", "u", "t", "e", "d", ".", "p", "d", "f">>, <<"S", "I", "G", "N", "E", "D", "_", "f", "i", "n", "a", "l", ".", "p", "d", "f">>, <<"c", "l", "e", "a", "n", "_", "r", "3", "_", "f", "i", "n", "a", "l", ".", "p", "d", "f">>,
     <<"r", "1", "_", "r", "2", ".", "p", "d", "f">>, <<"r", "e", "v", "1", ".", "p", "d", "f">>, <<"r", "e", "v", "2", "_", "d", "r", "a", "f", "t", ".", "p", "d", "f">>, <<"r", "e", "v", "3", ".", "p", "d", "f">>, <<"r", "2", ".", "p", "d", "f">>,
     <<"m", "a", "r", "k", " ", "u", "p", ".", "p", "d", "f">>, <<"m", "a", "r", "k", "u", "p", "_", "c", "l", "e", "a", "n", ".", "p", "d", "f">>, <<"d", "r", "a", "f", "t", ".", "p", "d", "f">>}

\* labels the vendor's answer may carry, and what error dicts lack
ImportanceLabels == {"CRITICAL", "HIGH", "MEDIUM", "LOW", "URGENT", Missing}

TypeLabels == {"PRIMARY_CONTRACT", "CHANGE_ORDER", "AMENDMENT", "INSURANCE_DOCUMENT",
               "CORRESPONDENCE", "UNKNOWN", "ERROR"}

StatusLabels == {"EXECUTED_SIGNED", "DRAFT_UNSIGNED", "UNKNOWN", Missing}

\* text lengths on both sides of each threshold
TextLengths == {50, 20000, 20001, 50000, 50001, 100000, 100001}

NoClassification ==
    [filename |-> <<>>, document_type |-> Missing, importance |-> Missing,
     status |-> Missing, recommendation |-> Missing, text_length |-> 0,
     error |-> FALSE]

\* one call of score_document_importance
ScoreDocument ==
    /\ score = 0
    /\ score' = ScoreDocumentImportance(classification)
    /\ UNCHANGED <<classification, directory, dir_resp, ident_resp, scan_report>>

(***************************************************************************)
(* The directory a job's PDFs lie in, and the classification of its files  *)
(***************************************************************************)
\* most PDF files a directory holds
MaxDocs == 3

\* one name without indicator word and two with one, of which one in upper
\* case
DirFilenames == {<<"s", "u", "b", ".", "p", "d", "f">>, <<"f", "i", "n", "a", "l", ".", "p", "d", "f">>, <<"E", "x", "e", "c", "u", "t", "e", "d", ".", "p", "d", "f">>}

\* `if not document_text or len(document_text.strip()) < 50`
MinScanLength == 50

\* length of what extract_text_from_pdf returns (already stripped), 0 for None
DirTextLengths == {0, 49, 50}

\* what the vendor answers to the classification request for a file: the
\* labels of a 200 answer (Missing: the answer has no such line), or a failure
\* (another status, a timeout, a body that does not decode)
ClassifyAnswers ==
    {[ok |-> TRUE, document_type |-> "PRIMARY_CONTRACT", importance |-> "CRITICAL",
      status |-> "EXECUTED_SIGNED", recommendation |-> "ANALYZE_FULLY"],
     [ok |-> TRUE, document_type |-> "PRIMARY_CONTRACT", importance |-> "LOW",
      status |-> "DRAFT_UNSIGNED", recommendation |-> "REVIEW_MANUALLY"],
     [ok |-> TRUE, document_type |-> "CHANGE_ORDER", importance |-> "CRITICAL",
      status |-> "EXECUTED_SIGNED", recommendation |-> "ANALYZE_FULLY"],
     [ok |-> TRUE, document_type |-> Missing, importance |-> Missing,
      status |-> Missing, recommendation |-> Missing],
     [ok |-> FALSE, document_type |-> Missing, importance |-> Missing,
      status |-> Missing, recommendation |-> Missing]}

\* no request is sent for a file without enough text
NoAnswer == [ok |-> FALSE, document_type |-> Missing, importance |-> Missing,
             status |-> Missing, recommendation |-> Missing]

DirFiles ==
    {[filename |-> f, text_length |-> MinScanLength, answer |-> a] :
         f \in DirFilenames, a \in ClassifyAnswers}
    \cup {[filename |-> f, text_length |-> n, answer |-> NoAnswer] :
              f \in DirFilenames, n \in {m \in DirTextLengths : m < MinScanLength}}

\* a directory holds each filename once
DistinctNames(files) ==
    \A i, j \in 1..Len(files) : files[i].filename = files[j].filename => i = j

FileLists == UNION {{fs \in [1..n -> DirFiles] : DistinctNames(fs)} : n \in 0..MaxDocs}

\* what the request's directory_path names
Directories ==
    {[kind |-> "dir", files |-> fs] : fs \in FileLists}
    \cup {[kind |-> "missing", files |-> <<>>], [kind |-> "file", files |-> <<>>]}

\* the dict the `except Exception` of classify_document returns
ErrorClassification(filename) ==
    [filename |-> filename, document_type |-> "ERROR", importance |-> Missing,
     status |-> Missing, recommendation |-> "REVIEW_MANUALLY", text_length |-> 0,
     error |-> TRUE]

\* ContractIntelligenceService.classify_document: the parsed answer over the
\* defaults of _parse_classification_response, or the error dict
ClassifyDocument(file) ==
    IF file.answer.ok
    THEN [filename |-> file.filename,
          document_type |-> Get(file.answer.document_type, "UNKNOWN"),
          importance |-> Get(file.answer.importance, "MEDIUM"),
          status |-> Get(file.answer.status, "UNKNOWN"),
          recommendation |-> Get(file.answer.recommendation, "REVIEW_MANUALLY"),
          text_length |-> 0, error |-> FALSE]
    ELSE ErrorClassification(file.filename)

\* SingleJobAnalyzer.quick_classify_document: parse_response starts from
\* the filename alone
QuickClassifyDocument(file) ==
    IF file.answer.ok
    THEN [filename |-> file.filename,
          document_type |-> file.answer.document_type,
          importance |-> file.answer.importance,
          status |-> file.answer.status,
          recommendation |-> file.answer.recommendation,
          text_length |-> 0, error |-> FALSE]
    ELSE ErrorClassification(file.filename)

\* the loop over pdf_files of analyze_directory: the classifications
\* appended, each with its text_length
RECURSIVE Classifications(_)
Classifications(files) ==
    IF files = <<>> THEN <<>>
    ELSE IF Head(files).text_length < MinScanLength
    THEN Classifications(Tail(files))
    ELSE <<[ClassifyDocument(Head(files)) EXCEPT !.text_length = Head(files).text_length]>>
         \o Classifications(Tail(files))

\* the files appended to failed_files
RECURSIVE FailedFiles(_)
FailedFiles(files) ==
    IF files = <<>> THEN <<>>
    ELSE IF Head(files).text_length < MinScanLength
    THEN <<Head(files).filename>> \o FailedFiles(Tail(files))
    ELSE FailedFiles(Tail(files))

(***************************************************************************)
(* ContractIntelligenceService: identify_main_contract and                 *)
(* get_ranked_document_list                                                *)
(***************************************************************************)
\* the classifications the directories explored give rise to
ScoredClassifications ==
    {[ClassifyDocument(f) EXCEPT !.text_length = f.text_length] :
         f \in {g \in DirFiles : g.text_length >= MinScanLength}}

\* score_document_importance over them, computed once
DocScores == {<<c, ScoreDocumentImportance(c)>> : c \in ScoredClassifications}

DocScore(c) == (CHOOSE p \in DocScores : p[1] = c)[2]

\* a local variable of the code: v is computed once, then read by F
With(v, F(_)) == CHOOSE r \in {F(x) : x \in {v}} : TRUE

\* the score of each classification of the list, in input order
RECURSIVE Scores(_)
Scores(cs) ==
    IF cs = <<>> THEN <<>> ELSE <<DocScore(Head(cs))>> \o Scores(Tail(cs))

\* `any(indicator in filename for indicator in ["executed", "clean",
\* "final", "r1", "signed"])` over the lowercased filename, computed once
IndicatedFilenames ==
    {p[1] : p \in {q \in {<<f, AnyIn({<<"e", "x", "e", "c", "u", "t", "e", "d">>, <<"c", "l", "e", "a", "n">>, <<"f", "i", "n", "a", "l">>, <<"r", "1">>, <<"s", "i", "g", "n", "e", "d">>},
                                     Lower(f))>> : f \in DirFilenames} : q[2]}}

HasIndicatorNever(filename) == FALSE

HasIndicator(filename) == filename \in IndicatedFilenames

\* `document_type == "PRIMARY_CONTRACT"`
IsPrimaryNever(c) == FALSE

IsPrimary(c) == c.document_type = "PRIMARY_CONTRACT"

\* list.sort(key=score, reverse=True) is stable: j comes before i when its
\* score is higher, or equal and j is earlier in the list
ScoredBeforeTiesReversed(scores, j, i) ==
    scores[j] > scores[i] \/ (scores[j] = scores[i] /\ j > i)

ScoredBefore(scores, j, i) ==
    scores[j] > scores[i] \/ (scores[j] = scores[i] /\ j < i)

\* the sorted list, as positions of the input list
SortedByScore(scores) ==
    LET Sorted(s) ==
            [k \in 1..Len(s) |->
                CHOOSE i \in 1..Len(s) :
                    Cardinality({j \in 1..Len(s) : ScoredBefore(s, j, i)}) = k - 1]
    IN With(scores, Sorted)

\* identify_main_contract: the position in the input list of the
\* classification returned, 0 for None.  The metadata it writes into that
\* dict (is_main_contract, importance_score, total_documents,
\* ranking_reason) is read by no later scoring.
IdentifyMainContract(cs) ==
    IF cs = <<>> THEN 0
    ELSE LET Primary(i) == IsPrimary(cs[i])
             Definitive(i) == HasIndicator(cs[i].filename)
             Choose(scored_docs) ==
                 LET FromPrimary(primary_contracts) ==
                         IF primary_contracts # <<>>
                         THEN (IF SelectSeq(primary_contracts, Definitive) # <<>>
                               THEN SelectSeq(primary_contracts, Definitive)[1]
                               ELSE primary_contracts[1])
                         ELSE scored_docs[1]
                 IN With(SelectSeq(scored_docs, Primary), FromPrimary)
         IN With(SortedByScore(Scores(cs)), Choose)

PriorityLevelByTypeFirst(doc, is_main_contract, rank) ==
    IF doc.document_type = "PRIMARY_CONTRACT" /\ rank <= 3 THEN "HIGH_PRIORITY"
    ELSE IF is_main_contract THEN "MAIN_CONTRACT"
    ELSE IF doc.recommendation = "ANALYZE_FULLY" THEN "ANALYZE_RECOMMENDED"
    ELSE "SUPPORTING_DOCUMENT"

\* the if/elif chain of get_ranked_document_list on a ranked document
PriorityLevel(doc, is_main_contract, rank) ==
    IF is_main_contract THEN "MAIN_CONTRACT"
    ELSE IF doc.document_type = "PRIMARY_CONTRACT" /\ rank <= 3 THEN "HIGH_PRIORITY"
    ELSE IF doc.recommendation = "ANALYZE_FULLY" THEN "ANALYZE_RECOMMENDED"
    ELSE "SUPPORTING_DOCUMENT"

\* the enhanced copy of a classification, with its rank and priority level
RankedDoc(c, main_filename, rank) ==
    LET Flagged(is_main_contract) ==
            [filename |-> c.filename,
             document_type |-> c.document_type,
             recommendation |-> c.recommendation,
             importance_score |-> DocScore(c),
             is_main_contract |-> is_main_contract,
             rank |-> rank,
             priority_level |-> PriorityLevel(c, is_main_contract, rank)]
    IN With(main_filename # <<>> /\ c.filename = main_filename, Flagged)

\* get_ranked_document_list
GetRankedDocumentList(cs) ==
    IF cs = <<>> THEN <<>>
    ELSE LET RankAround(main) ==
                 LET main_filename == IF main = 0 THEN <<>> ELSE cs[main].filename
                     Rank(order) ==
                         [k \in 1..Len(cs) |-> RankedDoc(cs[order[k]], main_filename, k)]
                 IN With(SortedByScore(Scores(cs)), Rank)
         IN With(IdentifyMainContract(cs), RankAround)

(***************************************************************************)
(* app/api/directories.py and single_job_scanner.py                        *)
(***************************************************************************)
\* number of classifications with d.get(field) == value
CountWhere(cs, Test(_)) == Len(SelectSeq(cs, Test))

IsCritical(d) == d.importance = "CRITICAL"

IsPrimaryContract(d) == d.document_type = "PRIMARY_CONTRACT"

IsExecuted(d) == d.status = "EXECUTED_SIGNED"

IsRecommended(d) == d.recommendation = "ANALYZE_FULLY"

NoDirResp ==
    [status |-> 0, detail |-> "", main_contract |-> <<>>, ranked_documents |-> <<>>,
     total_documents |-> 0, successful_scans |-> 0, failed_scans |-> 0,
     critical_documents |-> 0, primary_contracts |-> 0, executed_documents |-> 0,
     recommended_for_analysis |-> 0]

\* raise HTTPException(status_code, detail)
DirError(status, detail) == [NoDirResp EXCEPT !.status = status, !.detail = detail]

\* `if not classifications: raise HTTPException(status_code=422, ...)` sits
\* inside the `try` whose only handler is `except Exception`, and
\* HTTPException is an Exception: the handler answers in its place
NoDocuments == DirError(500, "Directory analysis failed")

\* the body of analyze_directory after the loop, on a non-empty list
DirectoryAnalysisResponse(files, classifications) ==
    LET IsMain(doc) == doc.is_main_contract
        Respond(ranked_docs) ==
            [status |-> 200, detail |-> "",
             main_contract |->
                 IF SelectSeq(ranked_docs, IsMain) = <<>> THEN <<>>
                 ELSE <<SelectSeq(ranked_docs, IsMain)[Len(SelectSeq(ranked_docs, IsMain))]>>,
             ranked_documents |-> ranked_docs,
             total_documents |-> Len(files),
             successful_scans |-> Len(classifications),
             failed_scans |-> Len(FailedFiles(files)),
             critical_documents |-> CountWhere(classifications, IsCritical),
             primary_contracts |-> CountWhere(classifications, IsPrimaryContract),
             executed_documents |-> CountWhere(classifications, IsExecuted),
             recommended_for_analysis |-> CountWhere(classifications, IsRecommended)]
    IN With(GetRankedDocumentList(classifications), Respond)

\* analyze_directory
AnalyzeDirectoryResponse(dir, key) ==
    IF dir.kind = "missing" THEN DirError(404, "Directory not found")
    ELSE IF dir.kind # "dir" THEN DirError(400, "Path is not a directory")
    ELSE IF dir.files = <<>> THEN DirError(404, "No PDF files found in directory")
    ELSE IF ~key THEN DirError(500, "Directory analysis failed")
    ELSE LET Analyze(classifications) ==
                 IF classifications = <<>> THEN NoDocuments
                 ELSE DirectoryAnalysisResponse(dir.files, classifications)
         IN With(Classifications(dir.files), Analyze)

\* POST /directories/analyze-directory
AnalyzeDirectory ==
    /\ dir_resp = NoDirResp
    /\ dir_resp' = AnalyzeDirectoryResponse(directory, api_key)
    /\ UNCHANGED <<classification, score, directory, ident_resp, scan_report>>

NoIdentResp == [status |-> 0, success |-> FALSE, detail |-> "", filename |-> <<>>]

\* POST /directories/identify-main-contract-directory: an HTTPException of
\* analyze_directory propagates
IdentifyMainContractDirectory ==
    /\ ident_resp = NoIdentResp
    /\ \E full_result \in {AnalyzeDirectoryResponse(directory, api_key)} :
          ident_resp' =
              IF full_result.status # 200
              THEN [NoIdentResp EXCEPT !.status = full_result.status,
                                       !.detail = full_result.detail]
              ELSE IF full_result.main_contract # <<>>
              THEN [status |-> 200, success |-> TRUE, detail |-> "",
                    filename |-> full_result.main_contract[1].filename]
              ELSE [status |-> 200, success |-> FALSE,
                    detail |-> "Could not identify main contract", filename |-> <<>>]
    /\ UNCHANGED <<classification, score, directory, dir_resp, scan_report>>

\* SingleJobAnalyzer.scan_all_documents: one dict per PDF, an error_doc for
\* a file without enough text
ScanAllDocuments(files) ==
    [i \in 1..Len(files) |->
        IF files[i].text_length < MinScanLength
        THEN [ErrorClassification(files[i].filename) EXCEPT !.document_type = Missing,
                                                            !.recommendation = Missing]
        ELSE [QuickClassifyDocument(files[i]) EXCEPT !.text_length = files[i].text_length]]

HasError(d) == d.error

HasNoError(d) == ~d.error

NoReport ==
    [done |-> FALSE, written |-> FALSE, total_documents |-> 0, successful_scans |-> 0,
     failed_scans |-> 0, critical_documents |-> 0, primary_contracts |-> 0,
     executed_documents |-> 0, recommended_for_analysis |-> 0]

\* SingleJobAnalyzer.generate_job_report: the counts of the report
GenerateJobReport(scanned_docs) ==
    LET successful_scans == SelectSeq(scanned_docs, HasNoError)
    IN [done |-> TRUE, written |-> TRUE,
        total_documents |-> Len(scanned_docs),
        successful_scans |-> Len(successful_scans),
        failed_scans |-> Len(SelectSeq(scanned_docs, HasError)),
        critical_documents |-> CountWhere(successful_scans, IsCritical),
        primary_contracts |-> CountWhere(successful_scans, IsPrimaryContract),
        executed_documents |-> CountWhere(successful_scans, IsExecuted),
        recommended_for_analysis |-> CountWhere(successful_scans, IsRecommended)]

\* python single_job_scanner.py <directory>: main and run_analysis; no
\* report is written for a missing directory, without an API key or when
\* there is no PDF
RunAnalysis ==
    /\ scan_report = NoReport
    /\ scan_report' =
           IF directory.kind = "missing" \/ ~api_key \/ directory.files = <<>>
           THEN [NoReport EXCEPT !.done = TRUE]
           ELSE GenerateJobReport(ScanAllDocuments(directory.files))
    /\ UNCHANGED <<classification, score, directory, dir_resp, ident_resp>>

(***************************************************************************)
(* app/api/routes.py: POST /admin/create-first-user                        *)
(***************************************************************************)
\* the UserCreate bodies sent
UserCreates == [email : {"a@x.com", "b@x.com"}, username : {"ann", "bob"}]

\* a row the protected endpoint created earlier
ExistingUser == [email |-> "root@x.com", username |-> "root"]

NoUserReq == [pc |-> "idle", email |-> "", username |-> ""]

NoUserResp == [status |-> 0, detail |-> "", worker |-> ""]

\* `user_count = db.query(UserModel).count()` and the test on it: the
\* handler is a plain `def`, run in a worker thread, and its session reads
\* the rows committed so far
CreateFirstUserStart(w, user) ==
    /\ user_reqs[w].pc = "idle"
    /\ IF Len(users) > 0
       THEN /\ user_last' = [status |-> 400, detail |-> "Users already exist", worker |-> w]
            /\ UNCHANGED <<users, user_reqs>>
       ELSE /\ user_reqs' = [user_reqs EXCEPT ![w] =
                                 [pc |-> "commit", email |-> user.email,
                                  username |-> user.username]]
            /\ UNCHANGED <<users, user_last>>

\* db.add(db_user); db.commit(): email and username are unique columns, and
\* the IntegrityError of a duplicate is not handled
CreateFirstUserCommit(w) ==
    /\ user_reqs[w].pc = "commit"
    /\ user_reqs' = [user_reqs EXCEPT ![w] = NoUserReq]
    /\ IF \E i \in 1..Len(users) : \/ users[i].email = user_reqs[w].email
                                    \/ users[i].username = user_reqs[w].username
       THEN /\ user_last' = [status |-> 500, detail |-> "IntegrityError", worker |-> w]
            /\ UNCHANGED users
       ELSE /\ users' = Append(users, [email |-> user_reqs[w].email,
                                       username |-> user_reqs[w].username])
            /\ user_last' = [status |-> 200, detail |-> "", worker |-> w]

(***************************************************************************)
(* ComprehensiveClaudeAnalyzer._parse_comprehensive_response               *)
(***************************************************************************)
\* str.upper()
UpperChar(c) ==
    IF \E i \in 1..Len(LowerCase) : LowerCase[i] = c
    THEN UpperCase[CHOOSE i \in 1..Len(LowerCase) : LowerCase[i] = c]
    ELSE c

Upper(s) == [i \in 1..Len(s) |-> UpperChar(s[i])]

\* str.strip() of a string whose only whitespace is the space
RECURSIVE StripStr(_)
StripStr(s) ==
    IF s = <<>> THEN <<>>
    ELSE IF Head(s) = " " THEN StripStr(Tail(s))
    ELSE IF s[Len(s)] = " " THEN StripStr(SubSeq(s, 1, Len(s) - 1))
    ELSE s

\* re.sub(r"^[#\s]+", "", s)
RECURSIVE DropLeading(_)
DropLeading(s) ==
    IF s # <<>> /\ Head(s) \in {"#", " "} THEN DropLeading(Tail(s)) ELSE s

\* s[:n]
Take(s, n) == SubSeq(s, 1, IF Len(s) < n THEN Len(s) ELSE n)

\* line.split(":", 1)
SplitColon(line) ==
    LET at == CHOOSE i \in 1..Len(line) :
                  line[i] = ":" /\ \A j \in 1..(i - 1) : line[j] # ":"
    IN [key |-> SubSeq(line, 1, at - 1), value |-> SubSeq(line, at + 1, Len(line))]

\* Python's None
None == <<>>

NotFound == <<"N", "O", "T", "_", "F", "O", "U", "N", "D">>

\* the if/elif chain, in its order: the label tested with `in key` and the
\* field of data the branch writes
ParseBranches ==
    <<[label |-> <<"C", "O", "N", "T", "R", "A", "C", "T", "_", "N", "U", "M", "B", "E", "R">>, field |-> "contract_number"],
      [label |-> <<"C", "O", "N", "T", "R", "A", "C", "T", "_", "N", "A", "M", "E">>, field |-> "contract_name"],
      [label |-> <<"C", "O", "N", "T", "R", "A", "C", "T", "_", "V", "A", "L", "U", "E">>, field |-> "contract_value"],
      [label |-> <<"C", "O", "N", "T", "R", "A", "C", "T", "O", "R", "_", "N", "A", "M", "E">>, field |-> "contractor_name"],
      [label |-> <<"S", "U", "B", "C", "O", "N", "T", "R", "A", "C", "T", "O", "R", "_", "N", "A", "M", "E">>, field |-> "subcontractor_name"],
      [label |-> <<"O", "W", "N", "E", "R", "_", "N", "A", "M", "E">>, field |-> "owner_name"],
      [label |-> <<"A", "G", "R", "E", "E", "M", "E", "N", "T", "_", "D", "A", "T", "E">>, field |-> "agreement_date"],
      [label |-> <<"S", "T", "A", "R", "T", "_", "D", "A", "T", "E">>, field |-> "start_date"],
      [label |-> <<"E", "N", "D", "_", "D", "A", "T", "E">>, field |-> "end_date"],
      [label |-> <<"P", "R", "O", "J", "E", "C", "T", "_", "L", "O", "C", "A", "T", "I", "O", "N">>, field |-> "project_location"],
      [label |-> <<"W", "O", "R", "K", "_", "D", "E", "S", "C", "R", "I", "P", "T", "I", "O", "N">>, field |-> "work_description"],
      [label |-> <<"P", "R", "O", "J", "E", "C", "T", "_", "T", "Y", "P", "E">>, field |-> "project_type"],
      [label |-> <<"P", "A", "Y", "M", "E", "N", "T", "_", "T", "E", "R", "M", "S">>, field |-> "payment_terms"],
      [label |-> <<"R", "E", "T", "A", "I", "N", "A", "G", "E", "_", "P", "E", "R", "C", "E", "N", "T", "A", "G", "E">>, field |-> "retainage_percentage"],
      [label |-> <<"I", "N", "S", "U", "R", "A", "N", "C", "E", "_", "R", "E", "Q", "U", "I", "R", "E", "D">>, field |-> "insurance_required"],
      [label |-> <<"B", "O", "N", "D", "_", "R", "E", "Q", "U", "I", "R", "E", "D">>, field |-> "bond_required"],
      [label |-> <<"I", "N", "S", "U", "R", "A", "N", "C", "E", "_", "A", "M", "O", "U", "N", "T">>, field |-> "insurance_amount"],
      [label |-> <<"B", "O", "N", "D", "_", "A", "M", "O", "U", "N", "T">>, field |-> "bond_amount"]>>

\* the first branch whose label is a substring of the key, 0 when none is
BranchOf(key) ==
    IF \E i \in 1..Len(ParseBranches) : Contains(key, ParseBranches[i].label)
    THEN CHOOSE i \in 1..Len(ParseBranches) :
             /\ Contains(key, ParseBranches[i].label)
             /\ \A j \in 1..(i - 1) : ~Contains(key, ParseBranches[j].label)
    ELSE 0

\* _clean_contract_number
CleanContractNumber(value) ==
    Take(DropLeading(StripStr(RemoveAll(RemoveAll(value, <<"C", "T", "D", "O", "T", " ", "#">>), <<"C", "T", "D", "O", "T">>))), 50)

\* the first match of [\d.]+ in s, <<>> when there is none
RECURSIVE FirstNumber(_, _)
FirstNumber(s, run) ==
    IF s = <<>> THEN run
    ELSE IF Head(s) = "." \/ \E i \in 1..Len(DigitChars) : DigitChars[i] = Head(s)
    THEN FirstNumber(Tail(s), Append(run, Head(s)))
    ELSE IF run # <<>> THEN run
    ELSE FirstNumber(Tail(s), run)

\* _extract_decimal: Decimal() of the first match, written as its digits;
\* None when there is no match or Decimal() rejects it
ExtractDecimal(value) ==
    LET number == FirstNumber(RemoveAll(value, <<",">>), <<>>)
        dots == {i \in 1..Len(number) : number[i] = "."}
    IN IF Cardinality(dots) <= 1 /\ Cardinality(dots) < Len(number)
       THEN number ELSE None

IsDigit(c) == \E i \in 1..Len(DigitChars) : DigitChars[i] = c

\* _parse_date on a value that is either of the form YYYY-MM-DD or of none
\* of the four formats: the date, written as its ISO text, or None
ParseDate(value) ==
    IF /\ Len(value) = 10
       /\ value[5] = "-" /\ value[8] = "-"
       /\ \A i \in {1, 2, 3, 4, 6, 7, 9, 10} : IsDigit(value[i])
       /\ SubSeq(value, 6, 7) \in {<<"0", "5">>, <<"1", "2">>}
       /\ SubSeq(value, 9, 10) \in {<<"0", "1">>, <<"3", "1">>}
    THEN value ELSE None

\* the value a branch stores
Convert(field, value) ==
    CASE field = "contract_number" -> CleanContractNumber(value)
      [] field \in {"contract_value", "retainage_percentage", "insurance_amount",
                    "bond_amount"} -> ExtractDecimal(value)
      [] field \in {"agreement_date", "start_date", "end_date"} -> ParseDate(value)
      [] field \in {"insurance_required", "bond_required"} -> Upper(value) = <<"Y", "E", "S">>
      [] field = "work_description" -> Take(value, 500)
      [] field = "project_type" -> Take(value, 100)
      [] field = "payment_terms" -> Take(value, 300)
      [] OTHER -> Take(value, 255)

\* the initial dict of the parser
Defaults ==
    [f \in {ParseBranches[i].field : i \in 1..Len(ParseBranches)} |->
        IF f \in {"insurance_required", "bond_required"} THEN FALSE ELSE None]

NoData == [parsed |-> FALSE, fields |-> Defaults]

\* what one line of the answer does: the field it writes ("" for none) and
\* the value written
LineEffect(line) ==
    IF ~Contains(line, <<":">>) THEN [field |-> "", value |-> None]
    ELSE LET key == Upper(StripStr(SplitColon(line).key))
             value == StripStr(SplitColon(line).value)
         IN IF value = NotFound \/ value = <<>> \/ BranchOf(key) = 0
            THEN [field |-> "", value |-> None]
            ELSE [field |-> ParseBranches[BranchOf(key)].field,
                  value |-> Convert(ParseBranches[BranchOf(key)].field, value)]

\* most lines of an answer
MaxLines == 2

\* the lines the vendor's answers are made of
Lines ==
    {<<"C", "O", "N", "T", "R", "A", "C", "T", "O", "R", "_", "N", "A", "M", "E", ":", " ", "A", "c", "m", "e">>,
     <<"C", "O", "N", "T", "R", "A", "C", "T", "O", "R", "_", "N", "A", "M", "E", ":">>,
     <<"S", "U", "B", "C", "O", "N", "T", "R", "A", "C", "T", "O", "R", "_", "N", "A", "M", "E", ":", " ", "S", "u", "b", "C", "o">>,
     <<"S", "U", "B", "C", "O", "N", "T", "R", "A", "C", "T", "O", "R", "_", "N", "A", "M", "E", ":", " ", "N", "O", "T", "_", "F", "O", "U", "N", "D">>,
     <<" ", "O", "w", "n", "e", "r", "_", "N", "a", "m", "e", " ", ":", " ", " ", "C", "i", "t", "y", " ">>,
     <<"C", "O", "N", "T", "R", "A", "C", "T", "_", "N", "A", "M", "E", ":", " ", "B", "r", "i", "d", "g", "e">>,
     <<"C", "O", "N", "T", "R", "A", "C", "T", "_", "N", "U", "M", "B", "E", "R", ":", " ", "C", "T", "D", "O", "T", " ", "#", "1", "2">>,
     <<"C", "O", "N", "T", "R", "A", "C", "T", "_", "V", "A", "L", "U", "E", ":", " ", "$", "1", ",", "2", "5", "0", ".", "5", "0">>,
     <<"B", "O", "N", "D", "_", "A", "M", "O", "U", "N", "T", ":", " ", "1", ".", "2", ".", "3">>,
     <<"A", "G", "R", "E", "E", "M", "E", "N", "T", "_", "D", "A", "T", "E", ":", " ", "2", "0", "2", "4", "-", "0", "5", "-", "0", "1">>,
     <<"E", "N", "D", "_", "D", "A", "T", "E", ":", " ", "s", "o", "o", "n">>,
     <<"B", "O", "N", "D", "_", "R", "E", "Q", "U", "I", "R", "E", "D", ":", " ", "y", "e", "s">>,
     <<"H", "e", "r", "e", " ", "i", "s", " ", "t", "h", "e", " ", "a", "n", "a", "l", "y", "s", "i", "s">>,
     <<"N", "O", "T", "E", "S", ":", " ", "s", "e", "e", " ", "3", ":", "1">>}

\* LineEffect over them, computed once
LineEffects == {<<line, LineEffect(line)>> : line \in Lines}

EffectOf(line) == (CHOOSE p \in LineEffects : p[1] = line)[2]

\* _parse_comprehensive_response: the loop over response.split("\n")
RECURSIVE ParseComprehensiveResponse(_)
ParseComprehensiveResponse(lines) ==
    IF lines = <<>> THEN Defaults
    ELSE LET Store(effect) ==
                 IF effect.field = ""
                 THEN ParseComprehensiveResponse(SubSeq(lines, 1, Len(lines) - 1))
                 ELSE [ParseComprehensiveResponse(SubSeq(lines, 1, Len(lines) - 1))
                          EXCEPT ![effect.field] = effect.value]
         IN With(EffectOf(lines[Len(lines)]), Store)

ParseResponse ==
    /\ ~parsed_data.parsed
    /\ parsed_data' = [parsed |-> TRUE, fields |-> ParseComprehensiveResponse(response)]
    /\ UNCHANGED response

(***************************************************************************)
(* Specifications                                                          *)
(***************************************************************************)
\* ---- SpecAsk: one call of ComprehensiveClaudeAnalyzer._ask_claude
AskInit ==
    /\ ask_pc = "request"
    /\ attempt = 0
    /\ max_retries \in 0..MaxRetriesArg
    /\ outcomes = <<>>
    /\ sleeps = <<>>
    /\ returned = 0
    /\ raised = ""
    /\ contracts = <<>>
    /\ analyses = <<>>
    /\ wip_entries = <<>>
    /\ api_key = FALSE
    /\ reqs = [w \in Workers |-> Idle]
    /\ last = NoResp
    /\ served = 0
    /\ wip_items = {}
    /\ csv_last = NoCsvResp
    /\ classification = NoClassification
    /\ score = 0
    /\ directory = <<>>
    /\ dir_resp = NoDirResp
    /\ ident_resp = NoIdentResp
    /\ scan_report = NoReport
    /\ users = <<>>
    /\ user_reqs = [w \in Workers |-> NoUserReq]
    /\ user_last = NoUserResp
    /\ response = <<>>
    /\ parsed_data = NoData

AskNext ==
    \E o \in VendorOutcomes : \E b \in Branches(o) :
        AskAttempt(o, b) /\ UNCHANGED <<api_vars, csv_vars, doc_vars, user_vars, parse_vars>>

SpecAsk == AskInit /\ [][AskNext]_vars

\* ---- SpecCsv: uploads of CSV files
CsvInit ==
    /\ wip_items = {}
    /\ csv_last = NoCsvResp
    /\ ask_pc = "idle"
    /\ attempt = 0
    /\ max_retries = 0
    /\ outcomes = <<>>
    /\ sleeps = <<>>
    /\ returned = 0
    /\ raised = ""
    /\ contracts = <<>>
    /\ analyses = <<>>
    /\ wip_entries = <<>>
    /\ api_key = FALSE
    /\ reqs = [w \in Workers |-> Idle]
    /\ last = NoResp
    /\ served = 0
    /\ classification = NoClassification
    /\ score = 0
    /\ directory = <<>>
    /\ dir_resp = NoDirResp
    /\ ident_resp = NoIdentResp
    /\ scan_report = NoReport
    /\ users = <<>>
    /\ user_reqs = [w \in Workers |-> NoUserReq]
    /\ user_last = NoUserResp
    /\ response = <<>>
    /\ parsed_data = NoData

CsvNext ==
    \E f \in CsvFilenames, d \in BOOLEAN, h \in SUBSET HeaderNames, rows \in CsvFiles :
        UploadWipCsv(f, d, h, rows) /\ UNCHANGED <<ask_vars, api_vars, doc_vars, user_vars, parse_vars>>

SpecCsv == CsvInit /\ [][CsvNext]_vars

\* ---- Spec: the contracts and contract_analysis tables under uploads and
\* analyses run by concurrent workers
ApiOnly == UNCHANGED <<ask_vars, csv_vars, served, doc_vars, user_vars, parse_vars>>

Init ==
    /\ contracts \in {<<>>, <<TextlessContract>>}
    /\ analyses = <<>>
    /\ wip_entries = <<>>
    /\ api_key \in BOOLEAN
    /\ reqs = [w \in Workers |-> Idle]
    /\ last = NoResp
    /\ served = 0
    /\ ask_pc = "idle"
    /\ attempt = 0
    /\ max_retries = 0
    /\ outcomes = <<>>
    /\ sleeps = <<>>
    /\ returned = 0
    /\ raised = ""
    /\ wip_items = {}
    /\ csv_last = NoCsvResp
    /\ classification = NoClassification
    /\ score = 0
    /\ directory = <<>>
    /\ dir_resp = NoDirResp
    /\ ident_resp = NoIdentResp
    /\ scan_report = NoReport
    /\ users = <<>>
    /\ user_reqs = [w \in Workers |-> NoUserReq]
    /\ user_last = NoUserResp
    /\ response = <<>>
    /\ parsed_data = NoData

\* the analysis result the vendor returns: upload and analyze never read its
\* fields, so one stands for all
ApiData == {d \in ExtractedData : d.contract_value > 0}

\* the server is restarted with another environment: settings are read once,
\* at import, and a restart ends every request in flight
Reconfigure ==
    /\ \A w \in Workers : reqs[w].pc = "idle"
    /\ api_key' = ~api_key
    /\ UNCHANGED <<contracts, analyses, wip_entries, reqs, last>>

\* most rows the contracts table holds in Spec, which explores every
\* filename, text and vendor answer
MaxApiContracts == 1

Next ==
    \/ \E w \in Workers, f \in Filenames, t \in PdfTexts :
          ExtractContractText(w, f, t) /\ ApiOnly /\ Len(contracts') <= MaxApiContracts
    \/ \E w \in Workers, cid \in 1..(MaxApiContracts + 1), e \in 0..(2 * MaxApiContracts) :
          AnalyzeStart(w, cid, e) /\ ApiOnly
    \/ \E w \in Workers, d \in ApiData : AnalyzeVendorOk(w, d) /\ ApiOnly
    \/ \E w \in Workers, x \in VendorFailures :
          AnalyzeVendorFails(w, x[1], x[2]) /\ ApiOnly
    \/ \E w \in Workers : AnalyzeCommit(w) /\ ApiOnly
    \/ Reconfigure /\ ApiOnly

Spec == Init /\ [][Next]_vars

\* ---- SpecWip: the whole pipeline, upload to WIP entry, with the uploads
\* and the vendor failures narrowed to one representative each, for runs of
\* at most MaxRequests requests
MaxRequests == 5

\* one filename that is uploaded, one that never is
WipFilenames == {f \in Filenames : EndsWith(f, DotPdf) \/ Len(f) > 8}

WipTexts == {t \in PdfTexts : t.core >= MinTextLength}

WipFailure == <<[kind |-> "timeout", status |-> 0, parses |-> FALSE], <<>>>>

WipInit ==
    /\ contracts = <<>>
    /\ analyses = <<>>
    /\ wip_entries = <<>>
    /\ api_key = TRUE
    /\ reqs = [w \in Workers |-> Idle]
    /\ last = NoResp
    /\ served = 0
    /\ ask_pc = "idle"
    /\ attempt = 0
    /\ max_retries = 0
    /\ outcomes = <<>>
    /\ sleeps = <<>>
    /\ returned = 0
    /\ raised = ""
    /\ wip_items = {}
    /\ csv_last = NoCsvResp
    /\ classification = NoClassification
    /\ score = 0
    /\ directory = <<>>
    /\ dir_resp = NoDirResp
    /\ ident_resp = NoIdentResp
    /\ scan_report = NoReport
    /\ users = <<>>
    /\ user_reqs = [w \in Workers |-> NoUserReq]
    /\ user_last = NoUserResp
    /\ response = <<>>
    /\ parsed_data = NoData

\* a handler starts: one more request is accepted
Accept ==
    /\ served < MaxRequests
    /\ served' = served + 1
    /\ UNCHANGED <<ask_vars, csv_vars, doc_vars, user_vars, parse_vars>>

\* a handler already running goes on
Continue == UNCHANGED <<ask_vars, csv_vars, served, doc_vars, user_vars, parse_vars>>

WipNext ==
    \/ \E w \in Workers, f \in WipFilenames, t \in WipTexts :
          ExtractContractText(w, f, t) /\ Accept
    \/ \E w \in Workers, cid \in 1..MaxContracts, e \in 0..(2 * MaxContracts) :
          AnalyzeStart(w, cid, e) /\ Accept
    \/ \E w \in Workers, d \in ExtractedData : AnalyzeVendorOk(w, d) /\ Continue
    \/ \E w \in Workers : AnalyzeVendorFails(w, WipFailure[1], WipFailure[2]) /\ Continue
    \/ \E w \in Workers : AnalyzeCommit(w) /\ Continue
    \/ \E w \in Workers, f \in WipFilenames, jn \in JobNumbers,
          c \in 0..MaxContracts, a \in 0..(2 * MaxContracts) :
          WipCreateStart(w, f, jn, c, a) /\ Accept
    \/ \E w \in Workers : WipCreateCommit(w) /\ Continue
    \/ \E w \in Workers, id \in 1..(MaxContracts + 1), u \in WipUpdates :
          UpdateWipEntry(w, id, u) /\ Accept
    \/ \E w \in Workers : GetAvailableContracts(w) /\ Accept

SpecWip == WipInit /\ [][WipNext]_vars


\* ---- SpecScore: score_document_importance applied to one classification
ScoreInputs ==
    [filename : ScoreFilenames, document_type : TypeLabels, importance : ImportanceLabels,
     status : StatusLabels, recommendation : {"REVIEW_MANUALLY"},
     text_length : TextLengths, error : {FALSE}]

ScoreInit ==
    /\ classification \in ScoreInputs
    /\ score = 0
    /\ directory = <<>>
    /\ dir_resp = NoDirResp
    /\ ident_resp = NoIdentResp
    /\ scan_report = NoReport
    /\ users = <<>>
    /\ user_reqs = [w \in Workers |-> NoUserReq]
    /\ user_last = NoUserResp
    /\ response = <<>>
    /\ parsed_data = NoData
    /\ ask_pc = "idle"
    /\ attempt = 0
    /\ max_retries = 0
    /\ outcomes = <<>>
    /\ sleeps = <<>>
    /\ returned = 0
    /\ raised = ""
    /\ contracts = <<>>
    /\ analyses = <<>>
    /\ wip_entries = <<>>
    /\ api_key = FALSE
    /\ reqs = [w \in Workers |-> Idle]
    /\ last = NoResp
    /\ served = 0
    /\ wip_items = {}
    /\ csv_last = NoCsvResp

ScoreNext == ScoreDocument /\ UNCHANGED <<ask_vars, api_vars, csv_vars, user_vars, parse_vars>>

SpecScore == ScoreInit /\ [][ScoreNext]_vars

\* a directory, the vendor's answer for each of its files, and whether the
\* API key is configured
DirInit ==
    /\ api_key \in BOOLEAN
    /\ directory \in IF api_key THEN Directories
                      ELSE {d \in Directories : Len(d.files) <= 1}
    /\ dir_resp = NoDirResp
    /\ ident_resp = NoIdentResp
    /\ scan_report = NoReport
    /\ classification = NoClassification
    /\ score = 0
    /\ users = <<>>
    /\ user_reqs = [w \in Workers |-> NoUserReq]
    /\ user_last = NoUserResp
    /\ response = <<>>
    /\ parsed_data = NoData
    /\ ask_pc = "idle"
    /\ attempt = 0
    /\ max_retries = 0
    /\ outcomes = <<>>
    /\ sleeps = <<>>
    /\ returned = 0
    /\ raised = ""
    /\ contracts = <<>>
    /\ analyses = <<>>
    /\ wip_entries = <<>>
    /\ reqs = [w \in Workers |-> Idle]
    /\ last = NoResp
    /\ served = 0
    /\ wip_items = {}
    /\ csv_last = NoCsvResp

DirNext ==
    /\ \/ AnalyzeDirectory
       \/ IdentifyMainContractDirectory
       \/ RunAnalysis
    /\ UNCHANGED <<ask_vars, api_vars, csv_vars, user_vars, parse_vars>>

SpecDir == DirInit /\ [][DirNext]_vars

\* an empty users table, or one holding a user already
UsersInit ==
    /\ users \in {<<>>, <<ExistingUser>>}
    /\ user_reqs = [w \in Workers |-> NoUserReq]
    /\ user_last = NoUserResp
    /\ response = <<>>
    /\ parsed_data = NoData
    /\ classification = NoClassification
    /\ score = 0
    /\ directory = <<>>
    /\ dir_resp = NoDirResp
    /\ ident_resp = NoIdentResp
    /\ scan_report = NoReport
    /\ ask_pc = "idle"
    /\ attempt = 0
    /\ max_retries = 0
    /\ outcomes = <<>>
    /\ sleeps = <<>>
    /\ returned = 0
    /\ raised = ""
    /\ contracts = <<>>
    /\ analyses = <<>>
    /\ wip_entries = <<>>
    /\ api_key = FALSE
    /\ reqs = [w \in Workers |-> Idle]
    /\ last = NoResp
    /\ served = 0
    /\ wip_items = {}
    /\ csv_last = NoCsvResp

UsersNext ==
    /\ \/ \E w \in Workers, user \in UserCreates : CreateFirstUserStart(w, user)
       \/ \E w \in Workers : CreateFirstUserCommit(w)
    /\ UNCHANGED <<ask_vars, api_vars, csv_vars, doc_vars, parse_vars>>

SpecUsers == UsersInit /\ [][UsersNext]_vars

\* an answer of up to MaxLines lines
ParseInit ==
    /\ response \in UNION {[1..n -> Lines] : n \in 0..MaxLines}
    /\ parsed_data = NoData
    /\ classification = NoClassification
    /\ score = 0
    /\ directory = <<>>
    /\ dir_resp = NoDirResp
    /\ ident_resp = NoIdentResp
    /\ scan_report = NoReport
    /\ users = <<>>
    /\ user_reqs = [w \in Workers |-> NoUserReq]
    /\ user_last = NoUserResp
    /\ ask_pc = "idle"
    /\ attempt = 0
    /\ max_retries = 0
    /\ outcomes = <<>>
    /\ sleeps = <<>>
    /\ returned = 0
    /\ raised = ""
    /\ contracts = <<>>
    /\ analyses = <<>>
    /\ wip_entries = <<>>
    /\ api_key = FALSE
    /\ reqs = [w \in Workers |-> Idle]
    /\ last = NoResp
    /\ served = 0
    /\ wip_items = {}
    /\ csv_last = NoCsvResp

ParseNext ==
    ParseResponse /\ UNCHANGED <<ask_vars, api_vars, csv_vars, doc_vars, user_vars>>

SpecParse == ParseInit /\ [][ParseNext]_vars

(***************************************************************************)
(* Properties                                                              *)
(***************************************************************************)
\* C1: in every reachable state each contract has at most one
\* contract_analysis row, also when two analyze requests for one contract
\* both pass the "already analyzed" check before either commits.
C1_OneAnalysisPerContract ==
    \A i, j \in 1..Len(analyses) :
        analyses[i].contract_id = analyses[j].contract_id => i = j

\* C2: in every reachable state no two wip_entries rows share a
\* contract_id, under any interleaving of creations and updates.
C2_OneWipEntryPerContract ==
    \A i, j \in 1..Len(wip_entries) :
        wip_entries[i].contract_id = wip_entries[j].contract_id => i = j

\* two creations for one contract raced: one row was inserted and later
\* updated, the other INSERT was refused
C2_Witness ==
    /\ last.op = "wip_create"
    /\ last.status = 500
    /\ Len(wip_entries) = 1
    /\ wip_entries[1].job_number = "J2"

\* C3: a POST /wip/wip-entry whose filename resolves to a contract that
\* already has a WIP entry is answered 400 at once and leaves the
\* wip_entries table as it was.
C3_DuplicateWipRejected ==
    [][\A w \in Workers, f \in WipFilenames, jn \in JobNumbers,
          c \in 1..MaxContracts, a \in 0..(2 * MaxContracts) :
          ( /\ \E i \in 1..Len(wip_entries) : wip_entries[i].contract_id = c
            /\ WipCreateStart(w, f, jn, c, a) )
          => /\ last'.op = "wip_create"
             /\ last'.status = 400
             /\ reqs'[w].pc = "idle"
             /\ wip_entries' = wip_entries]_vars

C3_Witness ==
    /\ last.op = "wip_create"
    /\ last.status = 400
    /\ last.detail = "WIP entry already exists"
    /\ Len(wip_entries) = 1

\* C4: analyzing an existing, not yet analyzed contract whose decrypted text
\* is empty or missing, or whose stripped text has fewer than 100
\* characters, is answered 422 with no request sent to the vendor and no
\* contract_analysis row created.
C4_NoTextRejected ==
    [][\A w \in Workers, cid \in 1..MaxApiContracts :
          ( /\ cid \in 1..Len(contracts)
            /\ \A i \in 1..Len(analyses) : analyses[i].contract_id # cid
            /\ \/ RawText(contracts[cid]).ws + RawText(contracts[cid]).core = 0
               \/ RawText(contracts[cid]).core < 100
            /\ AnalyzeStart(w, cid, 0) )
          => /\ last'.op = "analyze"
             /\ last'.status = 422
             /\ last'.vendor_calls = 0
             /\ reqs'[w].pc = "idle"
             /\ analyses' = analyses]_vars

\* an uploaded contract whose stripped text has 99 characters was analyzed
\* and refused, with the API key configured
C4_Witness ==
    /\ last.op = "analyze"
    /\ last.status = 422
    /\ last.detail = "Contract text too short for analysis"
    /\ last.vendor_calls = 0
    /\ api_key
    /\ \E i \in 1..Len(contracts) : RawText(contracts[i]).core = 99
    /\ analyses = <<>>

\* the filenames explored that do not end in ".pdf", whatever the case
NonPdfFilenames ==
    {p[1] : p \in {q \in {<<f, EndsWith(Lower(f), <<".", "p", "d", "f">>)>> : f \in Filenames} :
                     ~q[2]}}

\* C5: an upload whose filename does not end in ".pdf" (case-insensitively)
\* is answered 400 before the file is read, and no contracts row is created.
C5_NonPdfRejected ==
    [][\A w \in Workers, f \in NonPdfFilenames, t \in PdfTexts :
          ExtractContractText(w, f, t)
          => /\ last'.op = "upload"
             /\ last'.status = 400
             /\ ~last'.file_read
             /\ contracts' = contracts]_vars

C5_Witness ==
    /\ last.op = "upload"
    /\ last.status = 400
    /\ ~last.file_read
    /\ last.detail = "Only PDF files are allowed"
    /\ Len(contracts) = MaxApiContracts

\* C6: a CSV upload whose header row lacks job_number or project_name is
\* answered 400 (not 500), the detail lists exactly the required headers
\* that are missing, and no wip row is added.
C6_MissingHeadersRejected ==
    [][( /\ csv_last' # csv_last
         /\ EndsWith(csv_last'.file, <<".", "c", "s", "v">>)
         /\ csv_last'.decodes
         /\ {"job_number", "project_name"} \ csv_last'.headers # {} )
       => /\ csv_last'.status = 400
          /\ csv_last'.missing = {"job_number", "project_name"} \ csv_last'.headers
          /\ wip_items' = wip_items]_vars

C6_Witness ==
    /\ csv_last.status = 400
    /\ csv_last.headers = {"job_number", "notes"}
    /\ csv_last.missing = {"project_name"}
    /\ Len(csv_last.rows) = MaxRows

\* the status of every response before the i-th is not 200, or its body did
\* not decode
NoEarlierText(i) ==
    \A k \in 1..(i - 1) :
        outcomes[k].kind = "response" /\ outcomes[k].status = 200 => ~outcomes[k].parses

\* C7 (as amended): _ask_claude ends after at most max_retries + 1 requests
\* whatever the vendor answers: it returns the text of a 200 response, the
\* first whose body decodes, or raises; the raise after the loop is never
\* reached.
C7_AskBounded ==
    /\ Len(outcomes) <= max_retries + 1
    /\ ask_pc = "request" => Len(outcomes) <= max_retries
    /\ ask_pc # "unexpected"
    /\ raised # "Unexpected error in retry loop"
    /\ ask_pc = "returned" =>
          /\ returned = Len(outcomes)
          /\ outcomes[returned].kind = "response"
          /\ outcomes[returned].status = 200
          /\ outcomes[returned].parses
          /\ NoEarlierText(returned)
    /\ ask_pc = "raised" => raised # "" /\ returned = 0

\* C7 as claimed: what is returned is the text of the first 200 response.
C7_ReturnsFirst200 ==
    ask_pc = "returned" =>
        \A k \in 1..(returned - 1) :
            ~(outcomes[k].kind = "response" /\ outcomes[k].status = 200)

\* the last of max_retries + 1 requests returns, after a 200 that did not
\* decode, a 529 and a 429
C7_Witness ==
    /\ ask_pc = "returned"
    /\ max_retries = 3
    /\ returned = 4
    /\ outcomes[1].status = 200
    /\ outcomes[2].status = 529
    /\ outcomes[3].status = 429

\* C8: the sleep before the retry that follows attempt k is 5 * 2^k after a
\* 529, 30 + 10 * k after a 429 and 5 after a timeout or request error;
\* every retry is preceded by exactly one sleep and no sleep follows the
\* final attempt.
C8_SleepSchedule ==
    /\ \A i \in 1..Len(sleeps) :
          sleeps[i] =
              IF outcomes[i].kind = "response" /\ outcomes[i].status = 529
              THEN 5 * (2 ^ (i - 1))
              ELSE IF outcomes[i].kind = "response" /\ outcomes[i].status = 429
              THEN 30 + 10 * (i - 1)
              ELSE 5
    /\ Len(sleeps) = IF ask_pc = "request" THEN Len(outcomes) ELSE Len(outcomes) - 1

\* three retries: after a timeout, a 429 and a 529, then the final attempt
C8_Witness ==
    /\ ask_pc = "raised"
    /\ max_retries = 3
    /\ Len(outcomes) = 4
    /\ sleeps = <<5, 40, 20>>
    /\ outcomes[1].kind = "timeout"

\* C9: when the vendor answers the call made by the analyze endpoint with
\* 429 or 529, the call is retried (after a sleep) before the endpoint
\* reports an error.
C9_VendorCallRetried ==
    [][\A w \in Workers, x \in VendorFailures :
          ( /\ x[1].kind = "response"
            /\ x[1].status \in {429, 529}
            /\ AnalyzeVendorFails(w, x[1], x[2]) )
          => last'.vendor_calls > 1]_vars

\* C10: when the AI call of the analyze endpoint fails, the answer is 503
\* if the vendor reported 529, 429 if it reported 429 and 500 otherwise,
\* and no contract_analysis row exists for the contract afterwards.
C10_ErrorStatusByVendorStatus ==
    [][\A w \in Workers, x \in VendorFailures :
          AnalyzeVendorFails(w, x[1], x[2])
          => /\ last'.status =
                   IF x[1].kind = "response" /\ x[1].status = 529 THEN 503
                   ELSE IF x[1].kind = "response" /\ x[1].status = 429 THEN 429
                   ELSE 500
             /\ \A i \in 1..Len(analyses') : analyses'[i].contract_id # reqs[w].cid]_vars

\* C20 (as amended): in _ask_claude a response with a status other than
\* 200, 429 or 529 is never retried: the call raises after that request
\* without sleeping, whatever the attempt number; and a 200 response whose
\* body decodes ends the call at once, with no further request.
C20_OtherStatusNotRetried ==
    \A k \in 1..Len(outcomes) :
        /\ (outcomes[k].kind = "response" /\ outcomes[k].status \notin {200, 429, 529})
           => /\ k = Len(outcomes)
              /\ ask_pc = "raised"
              /\ raised = "api_error"
              /\ Len(sleeps) = k - 1
        /\ (outcomes[k].kind = "response" /\ outcomes[k].status = 200 /\ outcomes[k].parses)
           => /\ k = Len(outcomes)
              /\ ask_pc = "returned"
              /\ returned = k
              /\ Len(sleeps) = k - 1

\* C20 as claimed: every 200 response, whatever its body, is the last request
\* of the call.
C20_Any200EndsCall ==
    \A k \in 1..Len(outcomes) :
        /\ (outcomes[k].kind = "response" /\ outcomes[k].status \notin {200, 429, 529})
           => k = Len(outcomes) /\ ask_pc = "raised" /\ Len(sleeps) = k - 1
        /\ (outcomes[k].kind = "response" /\ outcomes[k].status = 200)
           => k = Len(outcomes)

\* after two retries the third request is answered 500 and the call raises
C20_Witness ==
    /\ ask_pc = "raised"
    /\ raised = "api_error"
    /\ max_retries = 3
    /\ Len(outcomes) = 3
    /\ outcomes[3].status = 500
    /\ Len(sleeps) = 2

\* C16: POST /contracts/analyze/{contract_id} on a contract that already has
\* a contract_analysis row returns success with status previously_analyzed
\* and the id of an existing analysis of that contract, sends the vendor no
\* request, creates no row and changes no stored field, whatever the length
\* of the contract's text and whether or not an API key is configured.
C16_AnalyzeIdempotent ==
    [][\A w \in Workers, cid \in 1..MaxApiContracts, e \in 0..(2 * MaxApiContracts) :
          ( /\ cid \in 1..Len(contracts)
            /\ \E i \in 1..Len(analyses) : analyses[i].contract_id = cid
            /\ AnalyzeStart(w, cid, e) )
          => /\ last'.op = "analyze"
             /\ last'.status = 200
             /\ last'.detail = "previously_analyzed"
             /\ last'.row \in 1..Len(analyses)
             /\ analyses[last'.row].contract_id = cid
             /\ last'.vendor_calls = 0
             /\ reqs'[w].pc = "idle"
             /\ analyses' = analyses
             /\ contracts' = contracts
             /\ wip_entries' = wip_entries]_vars

\* the one analysis of contract 1 is returned again, by a server that has
\* no API key any more
C16_Witness ==
    /\ last.op = "analyze"
    /\ last.status = 200
    /\ last.detail = "previously_analyzed"
    /\ last.row = 1
    /\ last.vendor_calls = 0
    /\ Len(analyses) = 1
    /\ ~api_key

\* C12: the score is the sum of independent terms: importance (CRITICAL 100,
\* HIGH 70, MEDIUM 40, LOW 20, anything else or missing 40), document type
\* (PRIMARY_CONTRACT 50, CHANGE_ORDER 30, AMENDMENT 25, INSURANCE_DOCUMENT 15,
\* CORRESPONDENCE 10, else 0), status (EXECUTED_SIGNED 30, DRAFT_UNSIGNED 10,
\* else 0), 25 for executed/signed/final in the lowercased filename, 20 for
\* clean, one version bonus (15 for r1/rev1, else 18 for r2/rev2, else 22 for
\* r3/rev3), minus 10 for markup/mark up/draft, and a length bonus (15 above
\* 100000 characters, else 10 above 50000, else 5 above 20000); every score
\* lies between 10 and 262.
C12_ScoreIsWeightedSum ==
    score # 0 =>
        LET c == classification
            name == Lower(c.filename)
            has(word) == Contains(name, word)
            importance ==
                IF c.importance = "CRITICAL" THEN 100 ELSE IF c.importance = "HIGH" THEN 70
                ELSE IF c.importance = "LOW" THEN 20 ELSE 40
            type ==
                IF c.document_type = "PRIMARY_CONTRACT" THEN 50
                ELSE IF c.document_type = "CHANGE_ORDER" THEN 30
                ELSE IF c.document_type = "AMENDMENT" THEN 25
                ELSE IF c.document_type = "INSURANCE_DOCUMENT" THEN 15
                ELSE IF c.document_type = "CORRESPONDENCE" THEN 10 ELSE 0
            status ==
                IF c.status = "EXECUTED_SIGNED" THEN 30
                ELSE IF c.status = "DRAFT_UNSIGNED" THEN 10 ELSE 0
            final == IF has(<<"e", "x", "e", "c", "u", "t", "e", "d">>) \/ has(<<"s", "i", "g", "n", "e", "d">>) \/ has(<<"f", "i", "n", "a", "l">>)
                     THEN 25 ELSE 0
            clean == IF has(<<"c", "l", "e", "a", "n">>) THEN 20 ELSE 0
            version ==
                IF has(<<"r", "1">>) \/ has(<<"r", "e", "v", "1">>) THEN 15
                ELSE IF has(<<"r", "2">>) \/ has(<<"r", "e", "v", "2">>) THEN 18
                ELSE IF has(<<"r", "3">>) \/ has(<<"r", "e", "v", "3">>) THEN 22 ELSE 0
            draft == IF has(<<"m", "a", "r", "k", "u", "p">>) \/ has(<<"m", "a", "r", "k", " ", "u", "p">>) \/ has(<<"d", "r", "a", "f", "t">>)
                     THEN 10 ELSE 0
            length ==
                IF c.text_length > 100000 THEN 15 ELSE IF c.text_length > 50000 THEN 10
                ELSE IF c.text_length > 20000 THEN 5 ELSE 0
        IN /\ score = importance + type + status + final + clean + version - draft + length
           /\ score >= 10
           /\ score <= 262

\* the largest score: a critical, executed primary contract of more than
\* 100000 characters named clean_r3_final.pdf
C12_Witness ==
    /\ score = 262
    /\ classification.importance = "CRITICAL"
    /\ classification.document_type = "PRIMARY_CONTRACT"
    /\ classification.text_length = 100001

\* C11: POST /directories/analyze-directory on a directory that holds PDF
\* files none of which yields at least 50 characters of text answers 422
\* 'No documents could be processed'.  The code answers 500: the 422 is
\* raised inside the try block whose `except Exception` replaces it.
NoFileHasText ==
    /\ directory.kind = "dir"
    /\ directory.files # <<>>
    /\ \A i \in 1..Len(directory.files) : directory.files[i].text_length < MinScanLength

C11_NoTextAnswers422 ==
    (api_key /\ NoFileHasText /\ dir_resp # NoDirResp)
        => /\ dir_resp.status = 422
           /\ dir_resp.detail = "No documents could be processed"

\* what the code does in that case
C11_NoTextAnswers500 ==
    (api_key /\ NoFileHasText /\ dir_resp # NoDirResp) => dir_resp.status = 500

\* C13: for the same directory and the same vendor answers, the counts of
\* analyze-directory (total, successful and failed scans, critical, primary,
\* executed, recommended) are those of single_job_scanner.py's report.  The
\* code differs on a file whose classification request failed: the endpoint
\* counts it among the successful scans, the script among the failed ones.
C13_SameSummaryCounts ==
    (dir_resp.status = 200 /\ scan_report.written)
        => /\ dir_resp.total_documents = scan_report.total_documents
           /\ dir_resp.successful_scans = scan_report.successful_scans
           /\ dir_resp.failed_scans = scan_report.failed_scans
           /\ dir_resp.critical_documents = scan_report.critical_documents
           /\ dir_resp.primary_contracts = scan_report.primary_contracts
           /\ dir_resp.executed_documents = scan_report.executed_documents
           /\ dir_resp.recommended_for_analysis = scan_report.recommended_for_analysis

\* the counts that do agree, and the two that differ by the number of failed
\* classification requests
C13_CountsUpToFailedRequests ==
    (dir_resp.status = 200 /\ scan_report.written)
        => LET IsFailedRequest(f) == f.text_length >= MinScanLength /\ ~f.answer.ok
               failed_requests == Len(SelectSeq(directory.files, IsFailedRequest))
           IN /\ dir_resp.total_documents = scan_report.total_documents
              /\ dir_resp.successful_scans = scan_report.successful_scans + failed_requests
              /\ dir_resp.failed_scans + failed_requests = scan_report.failed_scans
              /\ dir_resp.critical_documents = scan_report.critical_documents
              /\ dir_resp.primary_contracts = scan_report.primary_contracts
              /\ dir_resp.executed_documents = scan_report.executed_documents
              /\ dir_resp.recommended_for_analysis = scan_report.recommended_for_analysis

\* position in the request's classification list of the document the
\* response names as main contract
MainPosition ==
    CHOOSE i \in 1..Len(Classifications(directory.files)) :
        Classifications(directory.files)[i].filename = dir_resp.main_contract[1].filename

\* C14: on a non-empty list identify_main_contract returns a document of
\* type PRIMARY_CONTRACT whenever the list has one; when it has none, it
\* returns a document of maximal score, the first such in input order, and
\* that document is rank 1 of get_ranked_document_list.
C14_MainIsPrimaryElseTopScore ==
    dir_resp.status = 200 =>
        LET cs == Classifications(directory.files)
            main == cs[IdentifyMainContract(cs)]
            HasPrimary == \E i \in 1..Len(cs) : cs[i].document_type = "PRIMARY_CONTRACT"
        IN /\ IdentifyMainContract(cs) \in 1..Len(cs)
           /\ dir_resp.main_contract # <<>>
           /\ dir_resp.main_contract[1].filename = main.filename
           /\ HasPrimary => dir_resp.main_contract[1].document_type = "PRIMARY_CONTRACT"
           /\ ~HasPrimary =>
                  /\ \A i \in 1..Len(cs) :
                         /\ ScoreDocumentImportance(cs[i])
                                <= dir_resp.main_contract[1].importance_score
                         /\ ScoreDocumentImportance(cs[i])
                                = dir_resp.main_contract[1].importance_score
                                => MainPosition <= i
                  /\ dir_resp.main_contract[1].importance_score
                         = ScoreDocumentImportance(main)
                  /\ dir_resp.main_contract[1].rank = 1
                  /\ dir_resp.ranked_documents[1] = dir_resp.main_contract[1]

\* a primary contract is returned although another document scores higher
C14_Witness ==
    /\ dir_resp.status = 200
    /\ dir_resp.main_contract # <<>>
    /\ dir_resp.main_contract[1].document_type = "PRIMARY_CONTRACT"
    /\ dir_resp.main_contract[1].rank > 1

\* no primary contract, and two documents tie for the highest score
C14_WitnessTie ==
    /\ dir_resp.status = 200
    /\ dir_resp.main_contract # <<>>
    /\ dir_resp.main_contract[1].document_type # "PRIMARY_CONTRACT"
    /\ Len(dir_resp.ranked_documents) >= 2
    /\ dir_resp.ranked_documents[2].importance_score
           = dir_resp.ranked_documents[1].importance_score

\* positions of the primary contracts of the request's classification list,
\* and of those whose lowercased filename contains an indicator word
PrimaryPositions ==
    {i \in 1..Len(Classifications(directory.files)) :
        Classifications(directory.files)[i].document_type = "PRIMARY_CONTRACT"}

IndicatedPrimaryPositions ==
    {i \in PrimaryPositions :
        AnyIn({<<"e", "x", "e", "c", "u", "t", "e", "d">>, <<"c", "l", "e", "a", "n">>, <<"f", "i", "n", "a", "l">>, <<"r", "1">>, <<"s", "i", "g", "n", "e", "d">>},
              Lower(Classifications(directory.files)[i].filename))}

ScoreAt(i) == ScoreDocumentImportance(Classifications(directory.files)[i])

C17_WitnessTwoIndicated ==
    /\ dir_resp.status = 200
    /\ \E i \in IndicatedPrimaryPositions : ScoreAt(i) < ScoreAt(MainPosition)

\* position in the request's classification list of the ranked document k
InputPosition(k) ==
    CHOOSE i \in 1..Len(Classifications(directory.files)) :
        Classifications(directory.files)[i].filename = dir_resp.ranked_documents[k].filename

\* C18: get_ranked_document_list returns one entry per input document; the
\* ranks are 1..n in list order; importance_score never increases along the
\* list, each entry carrying the score of its document; documents of equal
\* score keep their input order.
C18_RankedListIsStableSort ==
    dir_resp.status = 200 =>
        LET cs == Classifications(directory.files)
            ranked == dir_resp.ranked_documents
        IN /\ Len(ranked) = Len(cs)
           /\ {ranked[k].filename : k \in 1..Len(ranked)}
                  = {cs[i].filename : i \in 1..Len(cs)}
           /\ \A k \in 1..Len(ranked) :
                  /\ ranked[k].rank = k
                  /\ ranked[k].importance_score = ScoreAt(InputPosition(k))
           /\ \A k \in 1..(Len(ranked) - 1) :
                  /\ ranked[k].importance_score >= ranked[k + 1].importance_score
                  /\ ranked[k].importance_score = ranked[k + 1].importance_score
                         => InputPosition(k) < InputPosition(k + 1)

\* three documents ranked, two of equal score, and the order of the list is
\* not the input order
C18_Witness ==
    /\ dir_resp.status = 200
    /\ Len(dir_resp.ranked_documents) = 3
    /\ \E k \in 1..2 : dir_resp.ranked_documents[k].importance_score
                            = dir_resp.ranked_documents[k + 1].importance_score
    /\ \E k \in 1..2 : InputPosition(k) > InputPosition(k + 1)

\* C19: whenever analyze-directory returns normally, exactly one ranked
\* document has is_main_contract true, it is the only one of priority level
\* MAIN_CONTRACT, it is the document identify_main_contract returns, and
\* main_contract is that ranked document; and identify-main-contract-directory
\* then answers with it, never 'Could not identify main contract'.
C19_ExactlyOneMainContract ==
    /\ dir_resp.status = 200 =>
           LET cs == Classifications(directory.files)
               ranked == dir_resp.ranked_documents
               mains == {k \in 1..Len(ranked) : ranked[k].is_main_contract}
           IN /\ Cardinality(mains) = 1
              /\ \A k \in 1..Len(ranked) :
                     ranked[k].priority_level = "MAIN_CONTRACT" <=> k \in mains
              /\ \A k \in mains :
                     /\ ranked[k].filename = cs[IdentifyMainContract(cs)].filename
                     /\ dir_resp.main_contract = <<ranked[k]>>
    /\ ident_resp.status = 200 =>
           LET cs == Classifications(directory.files)
           IN /\ ident_resp.success
              /\ ident_resp.detail # "Could not identify main contract"
              /\ ident_resp.filename = cs[IdentifyMainContract(cs)].filename

\* both endpoints have answered for a directory of three documents whose
\* main contract is not the top-ranked one
C19_Witness ==
    /\ dir_resp.status = 200
    /\ ident_resp.status = 200
    /\ Len(dir_resp.ranked_documents) = 3
    /\ ~dir_resp.ranked_documents[1].is_main_contract
    /\ ident_resp.filename = dir_resp.main_contract[1].filename

\* C15: POST /admin/create-first-user creates a user only when none exists,
\* so the table never holds more than one user through it, under any
\* interleaving of calls.  The count and the insert are separate steps of
\* the handler: two concurrent calls both read a count of 0 and both insert.
C15_AtMostOneUser == Len(users) <= 1

\* a call that reads the count when a user exists answers 400 and adds no row
C15_CallAfterFirstUserRejected ==
    [][\A w \in Workers, user \in UserCreates :
          (Len(users) > 0 /\ CreateFirstUserStart(w, user))
              => /\ user_last'.status = 400
                 /\ users' = users
                 /\ user_reqs' = user_reqs]_vars

\* the lines of the answer whose key is exactly the label (after strip and
\* upper) and whose value is neither empty nor NOT_FOUND
LabelledLines(label) ==
    {i \in 1..Len(response) :
        /\ Contains(response[i], <<":">>)
        /\ Upper(StripStr(SplitColon(response[i]).key)) = label
        /\ StripStr(SplitColon(response[i]).value) \notin {<<>>, NotFound}}

\* the value of the last such line, None when there is none
LastValue(label) ==
    IF LabelledLines(label) = {} THEN None
    ELSE StripStr(SplitColon(response[CHOOSE i \in LabelledLines(label) :
                                          \A j \in LabelledLines(label) : j <= i]).value)

\* C21: _parse_comprehensive_response maps a labelled line to the field of
\* the same name only: a line 'SUBCONTRACTOR_NAME: X' sets subcontractor_name
\* to X and leaves contractor_name as the CONTRACTOR_NAME line set it, and a
\* line whose value is empty or NOT_FOUND leaves its field at the default.
\* In the code 'CONTRACTOR_NAME' is a substring of 'SUBCONTRACTOR_NAME' and
\* its branch comes first: the line overwrites contractor_name, and
\* subcontractor_name is never set.
C21_LineSetsFieldOfSameName ==
    parsed_data.parsed =>
        /\ parsed_data.fields["subcontractor_name"] = LastValue(<<"S", "U", "B", "C", "O", "N", "T", "R", "A", "C", "T", "O", "R", "_", "N", "A", "M", "E">>)
        /\ parsed_data.fields["contractor_name"] = LastValue(<<"C", "O", "N", "T", "R", "A", "C", "T", "O", "R", "_", "N", "A", "M", "E">>)
        /\ parsed_data.fields["owner_name"] = LastValue(<<"O", "W", "N", "E", "R", "_", "N", "A", "M", "E">>)
        /\ parsed_data.fields["contract_name"] = LastValue(<<"C", "O", "N", "T", "R", "A", "C", "T", "_", "N", "A", "M", "E">>)

\* what the code does: subcontractor_name stays None, and contractor_name
\* is the value of the last CONTRACTOR_NAME or SUBCONTRACTOR_NAME line
C21_SubcontractorNeverSet ==
    parsed_data.parsed =>
        /\ parsed_data.fields["subcontractor_name"] = None
        /\ parsed_data.fields["owner_name"] = LastValue(<<"O", "W", "N", "E", "R", "_", "N", "A", "M", "E">>)
        /\ parsed_data.fields["contract_name"] = LastValue(<<"C", "O", "N", "T", "R", "A", "C", "T", "_", "N", "A", "M", "E">>)
        /\ LabelledLines(<<"S", "U", "B", "C", "O", "N", "T", "R", "A", "C", "T", "O", "R", "_", "N", "A", "M", "E">>) = {}
               => parsed_data.fields["contractor_name"] = LastValue(<<"C", "O", "N", "T", "R", "A", "C", "T", "O", "R", "_", "N", "A", "M", "E">>)
        /\ \A i \in LabelledLines(<<"S", "U", "B", "C", "O", "N", "T", "R", "A", "C", "T", "O", "R", "_", "N", "A", "M", "E">>) :
               (\A j \in LabelledLines(<<"C", "O", "N", "T", "R", "A", "C", "T", "O", "R", "_", "N", "A", "M", "E">>) : j < i)
                   => parsed_data.fields["contractor_name"] = <<"S", "u", "b", "C", "o">>

\* C22: after any sequence of uploads, analyses and WIP creations, a
\* POST /wip/wip-entry with a filename that GET /wip/available-contracts has
\* just listed is accepted and builds the entry of a contract listed under
\* that filename.  With a filename uploaded twice the code resolves it with
\* .first() on an unordered query, which may return the other contract.
C22_ListedContractGetsItsEntry ==
    [][\A w \in Workers, f \in WipFilenames, jn \in JobNumbers,
          c \in 0..MaxContracts, a \in 0..(2 * MaxContracts) :
          ( /\ last.op = "available_contracts"
            /\ f \in last.listed
            /\ \A v \in Workers : reqs[v].pc = "idle"
            /\ WipCreateStart(w, f, jn, c, a) )
          => /\ reqs'[w].pc = "commit"
             /\ \E row \in AvailableContracts :
                    row[1] = reqs'[w].cid /\ contracts[row[1]].filename = f]_vars

\* when the listed filename names one contract only, the entry is built for
\* it and its creation removes the contract from the list
C22_ListedUniqueNameGetsItsEntry ==
    [][\A w \in Workers, f \in WipFilenames, jn \in JobNumbers,
          c \in 0..MaxContracts, a \in 0..(2 * MaxContracts) :
          ( /\ last.op = "available_contracts"
            /\ f \in last.listed
            /\ Cardinality(ContractsNamed(f)) = 1
            /\ \A v \in Workers : reqs[v].pc = "idle"
            /\ WipCreateStart(w, f, jn, c, a) )
          => /\ reqs'[w].pc = "commit"
             /\ \E row \in AvailableContracts :
                    row[1] = reqs'[w].cid /\ contracts[row[1]].filename = f]_vars

====
